---- MODULE Spec2Model ----
(***************************************************************************)
(* A model of the PMX export pipeline of blender_mmd_tools                 *)
(* (mmd_tools/core/pmx/exporter.py).                                       *)
(*                                                                         *)
(* The exporter is single threaded; each part of the pipeline is modelled  *)
(* by its own specification over the shared variables:                     *)
(*   SpecBones   __exportBones: bone table construction                    *)
(*   SpecSkin    mesh loader + skin weight encoding of one vertex          *)
(*   SpecVertex  __convertFaceUVToVertexUV / __convertAddUV consolidation  *)
(*   SpecUV      auxiliary UV channel budget over a sequence of meshes     *)
(*   SpecMorph   group morphs, morph index map, morph sort, display items  *)
(*   SpecMaterials  material order of the exported meshes                  *)
(*   SpecExecute the stages of execute up to pmx.save                      *)
(*   SpecIK      __exportIK: IK settings of the bone records               *)
(*   SpecLimits  __exportIKLinks: angle limits of the IK links             *)
(*   SpecTexture __exportTexture: the texture table                        *)
(*   SpecTables  face list, material table, bone and material morphs       *)
(*   SpecBoneIds safe_change_bone_id, realign_bone_ids (core/model.py)     *)
(*   SpecTracker the auto-export tracker (auto_export.py)                  *)
(* A specification leaves the variables of the other parts at their idle   *)
(* values.                                                                 *)
(*                                                                         *)
(* Numbers: weights, coordinates and colours are integers in fixed units;  *)
(* quotients are kept as exact fractions [num, den].                       *)
(***************************************************************************)
EXTENDS Integers, Sequences, FiniteSets, TLC

VARIABLES
    \* ---- bone table (__exportBones)
    arm,              \* arm.pose.bones: sequence of pose bone descriptions
    bones_pc,         \* "start" | "done" | "error_fix" | "error_link" (KeyError, line 415 | 438)
    pmx_bones,        \* self.__model.bones
    bone_name_table,  \* self.__bone_name_table
    r,                \* returned map: bone name -> index (set of pairs as function)
    \* ---- skin weights of one vertex
    v_raw,            \* v.groups of the Blender mesh vertex: seq of [group, weight]
    v_groups,         \* _Vertex.groups: seq of <<bone index, weight>>
    v_sdef,           \* _Vertex.sdef_data: <<>> or <<c, r0, r1>>
    pv_weight,        \* pmx.Vertex.weight
    skin_pc,          \* "raw" | "loaded" | "exported" | "error" (ZeroDivisionError)
    \* ---- vertex consolidation of one mesh (__doLoadMeshData face loops)
    cfg,              \* [splitting, colors, faces, layers]: export option and mesh shape
    base_vertices,    \* source vertex index -> sequence of _Vertex
    add_uvs_heap,     \* the add_uvs list objects; a _Vertex holds a reference
    avg_heap,         \* the _normal_list/_color_list/_area_list/_angle_list objects
    face_seq,         \* faces: triples of vertex identities <<source, position>>
    rip_vertices_map, \* per layer: vertex identity -> sequence of identities
    corner_log,       \* the calls of __convertFaceUVToVertexUV made so far
    rip_log,          \* the calls of __convertAddUV made so far
    vertex_pc,        \* [phase, face, corner, layer]
    \* ---- auxiliary UV channel budget of one export (execute)
    uv_input,         \* the meshes to export: seq of [uv_layers, vertex_colors, color_data]
    uv_meshes,        \* the meshes loaded so far: [bl_add_uvs, warned, add_uvs]
    add_uv_count,     \* self.__add_uv_count
    uv_exported,      \* pv.additional_uvs of one vertex of each exported mesh
    uv_saved_count,   \* add_uv_count handed to pmx.save, -1 before
    uv_pc,            \* "load" | "export" | "save" | "saved" | "error" (IndexError)
    \* ---- morph tables of one export (execute, lines 1479-1491)
    m_input,          \* the scene: [base, groups, frame]
    morphs,           \* self.__model.morphs: seq of [key, offsets]
    morph_warnings,   \* group morph name -> number of "was not found" warnings
    display,          \* self.__model.display: the items of the display frame
    morph_pc,         \* "morphs" | "group" | "sort" | "display" | "done"
    \* ---- material order of one export (__exportMeshes, lines 124-131)
    mat_scene,        \* the mesh objects in the order of Model.meshes(): [name, slots, used]
    mat_exported,     \* self.__material_name_table
    mat_pc,           \* "start" | "done"
    \* ---- the stages of one run of execute
    exec_args,        \* [root, translate_in_presets, sort_materials, copy_textures]
    exec_done,        \* the stages completed so far, in order
    save_calls,       \* number of calls of pmx.save
    exec_pc,          \* "run" | "returned" | "raised"
    \* ---- IK settings of one export (__exportIK)
    ik_arm,           \* the armature and root: [bones, ik_loop_factor]
    ik_bones,         \* self.__model.bones: [isIK, target, loopCount, ik_links]
    ik_log,           \* the outcome of every constraint visited so far
    ik_pc,            \* "run" | "done"
    \* ---- angle limits of one IK link (__exportIKLinks, lines 470-507)
    lim_in,           \* [policy, custom, lock_ik, override, native]
    lim_axes,         \* minimum, maximum and unused_counts after the axis loop
    lim_link,         \* ik_link.minimumAngle / maximumAngle: NoLimits or the converted limits
    lim_pc,           \* "axes" | "emit" | "done"
    \* ---- texture table of one export (__exportTexture)
    tex_env,          \* [platform, files]: os.name and the files that exist
    textures,         \* self.__model.textures: the paths of the entries
    tex_calls,        \* the calls made so far: [filepath, result, warned]
    \* ---- faces, materials and morph indices of one export (__exportMeshes,
    \* ---- __sortMaterials, __export_bone_morphs, __export_material_morphs)
    tb_in,            \* [meshes, sort_materials, bone_morph, material_morph]
    model_vertices,   \* self.__model.vertices: [co, src], src = <<mesh, face>> of the input
    model_faces,      \* self.__model.faces: triples of vertex indices (0 based)
    model_materials,  \* self.__model.materials: [name, vertex_count]
    material_name_table, \* self.__material_name_table
    bone_offsets,     \* offsets of the exported bone morph: [bone, index]
    material_offsets, \* offsets of the exported material morph: [material, index]
    material_warnings, \* the material names warned about as not found
    tb_pc,            \* "meshes" | "sort" | "bone_morphs" | "material_morphs" | "done"
    \* ---- bone IDs of one armature (FnModel.safe_change_bone_id, realign_bone_ids)
    id_bones,         \* pose_bones: [name, bone_id, shadow, parent, additional_transform_bone_id,
                      \*              display_connection_bone_id]
    id_morph,         \* data.bone_id of the data of the bone morphs
    id_call,          \* the call made: [op, bone, new_bone_id, offset, method, bones, morph]
    \* ---- auto-export tracker (auto_export.py)
    ae_scene,         \* the scene: [root_exists, pos, root_auto] and moving, any_moving
                      \* of the last track_mmd_changes that examined the mesh
    object_states,    \* object_states of the mesh: NoState or [prec, pos]
    initial_states,   \* initial_states of the mesh: NoState or [prec, pos]
    changes_detected, \* module global changes_detected
    root_to_export,   \* module global root_to_export: NoRoot or "R"
    last_active_root, \* module global last_active_root: NoRoot or "R"
    auto_export_enabled, \* module global auto_export_enabled
    recent_export,    \* time.time() - last_export_time < MIN_EXPORT_INTERVAL
    timers_pending,   \* registered timers of check_stability_timeout
    export_calls      \* calls of export_model with a root so far

bonesVars == <<arm, bones_pc, pmx_bones, bone_name_table, r>>
skinVars  == <<v_raw, v_groups, v_sdef, pv_weight, skin_pc>>
vertexVars == <<cfg, base_vertices, add_uvs_heap, avg_heap, face_seq,
                rip_vertices_map, corner_log, rip_log, vertex_pc>>
uvVars == <<uv_input, uv_meshes, add_uv_count, uv_exported, uv_saved_count, uv_pc>>
morphVars == <<m_input, morphs, morph_warnings, display, morph_pc>>
matVars == <<mat_scene, mat_exported, mat_pc>>
execVars == <<exec_args, exec_done, save_calls, exec_pc>>
ikVars == <<ik_arm, ik_bones, ik_log, ik_pc>>
limVars == <<lim_in, lim_axes, lim_link, lim_pc>>
texVars == <<tex_env, textures, tex_calls>>
tableVars == <<tb_in, model_vertices, model_faces, model_materials, material_name_table, bone_offsets, material_offsets, material_warnings, tb_pc>>
idVars == <<id_bones, id_morph, id_call>>
trackerVars == <<ae_scene, object_states, initial_states, changes_detected, root_to_export, last_active_root, auto_export_enabled, recent_export, timers_pending, export_calls>>
vars == <<bonesVars, skinVars, vertexVars, uvVars, morphVars, matVars, execVars, ikVars, limVars, texVars, tableVars, idVars, trackerVars>>

-----------------------------------------------------------------------------
(* Generic helpers *)

Range(s) == {s[i] : i \in DOMAIN s}

Min(a, b) == IF a < b THEN a ELSE b
Max(a, b) == IF a > b THEN a ELSE b

RECURSIVE SumSeq(_)
SumSeq(s) == IF s = <<>> THEN 0 ELSE s[1] + SumSeq(Tail(s))

\* All sequences without repetition over the set S, of length at most n.
RECURSIVE InjSeqs(_, _)
InjSeqs(S, n) ==
    IF n = 0 \/ S = {} THEN {<<>>}
    ELSE {<<>>} \cup UNION {{<<x>> \o t : t \in InjSeqs(S \ {x}, n - 1)} : x \in S}

\* Python's sorted()/list.sort(): stable, ascending in key.  The operand is a
\* sequence of [k, x] (key, item); an item is inserted after every element
\* whose key is <= its own.
RECURSIVE InsertStable(_, _)
InsertStable(e, s) ==
    IF s = <<>> THEN <<e>>
    ELSE IF s[Len(s)].k <= e.k THEN Append(s, e)
    ELSE Append(InsertStable(e, SubSeq(s, 1, Len(s) - 1)), s[Len(s)])

RECURSIVE SortKeyed(_)
SortKeyed(s) ==
    IF s = <<>> THEN <<>>
    ELSE InsertStable(s[Len(s)], SortKeyed(SubSeq(s, 1, Len(s) - 1)))

SortedStable(s) ==
    LET keyed == SortKeyed(s)
    IN [i \in DOMAIN s |-> keyed[i].x]

-----------------------------------------------------------------------------
(* Bone table: __exportBones *)

MaxBones == 2
MaxBoneId == 1

BoneNames == {"A", "B", "C", "D"}
NoBone == "none"

\* The first n names, in a fixed order.
NameList == <<"A", "B", "C", "D">>
NamesUpTo(n) == {NameList[i] : i \in 1..Min(n, Len(NameList))}

\* float("inf") of the sort key.
KeyInf == MaxBoneId + 1000

\* Export scale (args "scale") and rest positions of the bones.
Scale == 2
HeadOf(name) ==
    CASE name = "A" -> <<1, 2, 3>>
      [] name = "B" -> <<4, 5, 6>>
      [] name = "C" -> <<7, 8, 9>>
      [] OTHER      -> <<10, 11, 12>>

\* pmx_matrix @ Vector(loc): world matrix (identity here) times scale,
\* rows 1 and 2 exchanged (Y/Z swap).
to_pmx_location(loc) == <<loc[1] * Scale, loc[3] * Scale, loc[2] * Scale>>

VecSub(a, b) == [i \in DOMAIN a |-> a[i] - b[i]]

\* A pose bone: name, mmd_bone.bone_id, is_mmd_shadow_bone, bone.parent (name),
\* connected = bone.use_connect or (not movable and head on the parent's tail),
\* mmd_bone.is_tip, mmd_bone.display_connection_type,
\* mmd_bone.display_connection_bone_id, mmd_bone.additional_transform_bone.
NoName == ""
BoneIds == -1..MaxBoneId
PoseBone == [name : BoneNames, bone_id : BoneIds, shadow : BOOLEAN,
             parent : BoneNames \cup {NoBone}, connected : BOOLEAN, is_tip : BOOLEAN,
             display_connection_type : {"BONE", "OFFSET"},
             display_connection_bone_id : BoneIds,
             additional_transform_bone : BoneNames \cup {NoName}]

BoneByName(bones, n) == CHOOSE b \in Range(bones) : b.name = n

RECURSIVE Depth(_, _, _)
Depth(bones, n, fuel) ==
    IF n = NoBone THEN 0
    ELSE IF fuel = 0 THEN 1
    ELSE 1 + Depth(bones, BoneByName(bones, n).parent, fuel - 1)

\* The properties of a pose bone other than its name.  Each family of inputs
\* varies some of them and leaves the others at the value of a new bone.
Parents == NamesUpTo(MaxBones) \cup {NoBone}
HierarchyProps ==
    [bone_id : BoneIds, shadow : BOOLEAN, parent : Parents,
     connected : {FALSE}, is_tip : {FALSE},
     display_connection_type : {"OFFSET"}, display_connection_bone_id : {-1},
     additional_transform_bone : {NoName}]
TipProps ==
    [bone_id : BoneIds, shadow : {FALSE}, parent : Parents,
     connected : BOOLEAN, is_tip : BOOLEAN,
     display_connection_type : {"OFFSET"}, display_connection_bone_id : {-1},
     additional_transform_bone : {NoName}]
DisplayProps ==
    [bone_id : BoneIds, shadow : {FALSE}, parent : {NoBone},
     connected : {FALSE}, is_tip : BOOLEAN,
     display_connection_type : {"BONE"}, display_connection_bone_id : BoneIds,
     additional_transform_bone : {NoName}]
    \cup
    [bone_id : BoneIds, shadow : BOOLEAN, parent : {NoBone},
     connected : {FALSE}, is_tip : {FALSE},
     display_connection_type : {"OFFSET"}, display_connection_bone_id : {-1},
     additional_transform_bone : {NoName}]
    \cup
    [bone_id : BoneIds, shadow : {FALSE}, parent : {NoBone},
     connected : {FALSE}, is_tip : {TRUE},
     display_connection_type : {"OFFSET"}, display_connection_bone_id : {-1},
     additional_transform_bone : {NoName}]
TransformProps ==
    [bone_id : BoneIds, shadow : BOOLEAN, parent : {NoBone},
     connected : {FALSE}, is_tip : {FALSE},
     display_connection_type : {"OFFSET"}, display_connection_bone_id : {-1},
     additional_transform_bone : NamesUpTo(MaxBones) \cup {NoName}]

\* arm.pose.bones with the names ns (in this order) and properties from P:
\* parents inside the armature, no cycle.
ArmaturesOf(ns, P) ==
    {a \in {[i \in DOMAIN ns |-> [name |-> ns[i]] @@ f[i]] : f \in [DOMAIN ns -> P]} :
        /\ \A i \in DOMAIN a :
              a[i].parent = NoBone \/ \E j \in DOMAIN a : j # i /\ a[j].name = a[i].parent
        /\ \A i \in DOMAIN a : Depth(a, a[i].name, Len(a)) <= Len(a)}

\* The first n names in the order of NameList.
NamePrefix(n) == [i \in 1..n |-> NameList[i]]

\* The armatures exported: the hierarchy family takes the pose bones in every
\* order, the other families in the order of NameList.
ArmatureInput(a) ==
    \/ \E ns \in InjSeqs(NamesUpTo(MaxBones), MaxBones) : a \in ArmaturesOf(ns, HierarchyProps)
    \/ \E n \in 0..MaxBones : a \in ArmaturesOf(NamePrefix(n), TipProps)
    \/ \E n \in 0..MaxBones : a \in ArmaturesOf(NamePrefix(n), DisplayProps)
    \/ \E n \in 0..MaxBones : a \in ArmaturesOf(NamePrefix(n), TransformProps)

SortKey(p) == IF p.bone_id >= 0 THEN p.bone_id ELSE KeyInf

\* line 358
sorted_bones(pose_bones) ==
    SortedStable([i \in DOMAIN pose_bones |-> [k |-> SortKey(pose_bones[i]), x |-> pose_bones[i]]])

\* boneMap / r after some records were created: name -> index (0 based)
IndexOfName(names, n) == CHOOSE i \in DOMAIN names : names[i] = n

\* p_bone.tail: every bone is one unit long.
TailOf(name) == [HeadOf(name) EXCEPT ![3] = @ + 1]

\* lines 418-428: the display connection of a record at location loc.
DisplayConnection(p, loc) ==
    IF p.display_connection_type = "BONE"
    THEN IF p.is_tip THEN -1 ELSE p.display_connection_bone_id
    ELSE IF p.is_tip THEN <<0, 0, 0>>
         ELSE VecSub(to_pmx_location(TailOf(p.name)), loc)

\* First pass (lines 374-428): one record per non-shadow bone, in sorted order.
\* acc = [bones, names, err]; err is set when boneMap[pmx_bone.parent] raises
\* KeyError in the tip fix.
RECURSIVE CreateRecords(_, _, _, _)
CreateRecords(all, sb, k, acc) ==
    IF k > Len(sb) \/ acc.err THEN acc
    ELSE LET p == sb[k] IN
         IF p.shadow THEN CreateRecords(all, sb, k + 1, acc)
         ELSE LET fix == /\ p.parent # NoBone
                         /\ p.connected
                         /\ BoneByName(all, p.parent).is_tip
                  known == p.parent \in Range(acc.names)
                  loc == IF fix /\ known
                         THEN acc.bones[IndexOfName(acc.names, p.parent)].location
                         ELSE to_pmx_location(HeadOf(p.name))
                  rec == [name |-> p.name, location |-> loc, parent |-> p.parent,
                          displayConnection |-> DisplayConnection(p, loc),
                          additionalTransform |-> p.additional_transform_bone]
              IN IF fix /\ ~known
                 THEN [acc EXCEPT !.err = TRUE]
                 ELSE CreateRecords(all, sb, k + 1,
                        [bones |-> Append(acc.bones, rec),
                         names |-> Append(acc.names, p.name),
                         err |-> FALSE])

NoParent == -1

\* Second pass (lines 436-444): parents become table indices;
\* pmx_bones.index(boneMap[i.parent]) raises KeyError for an unexported parent.
LinkFails(acc) ==
    \E i \in DOMAIN acc.bones :
        acc.bones[i].parent # NoBone /\ acc.bones[i].parent \notin Range(acc.names)

\* lines 440-443: a displayConnection that is a Bone object becomes its index;
\* lines 418-428 store an int or a vector, which stays as it is.
LinkDisplay(acc, dc) == dc

\* line 444: r.get(name, -1)
LinkTransform(acc, n) ==
    IF n \in Range(acc.names) THEN IndexOfName(acc.names, n) - 1 ELSE -1

LinkRecords(acc) ==
    [i \in DOMAIN acc.bones |->
        [name |-> acc.bones[i].name,
         location |-> acc.bones[i].location,
         parent |-> IF acc.bones[i].parent = NoBone THEN NoParent
                    ELSE IndexOfName(acc.names, acc.bones[i].parent) - 1,
         displayConnection |-> LinkDisplay(acc, acc.bones[i].displayConnection),
         additionalTransform |-> LinkTransform(acc, acc.bones[i].additionalTransform)]]

\* lines 446-454: the bone "Root" with displayConnection = tail_loc - location
RootPlaceholder ==
    [name |-> "Root", location |-> to_pmx_location(<<0, 0, 0>>),
     parent |-> NoParent,
     displayConnection |-> VecSub(to_pmx_location(<<0, 0, 1>>), to_pmx_location(<<0, 0, 0>>))]

AddPlaceholder_NoGuard(bones) == bones

AddPlaceholder(bones) == IF Len(bones) = 0 THEN <<RootPlaceholder>> ELSE bones

ExportBones ==
    /\ bones_pc = "start"
    /\ LET acc == CreateRecords(arm, sorted_bones(arm), 1,
                                [bones |-> <<>>, names |-> <<>>, err |-> FALSE])
       IN IF acc.err \/ LinkFails(acc)
          THEN /\ bones_pc' = IF acc.err THEN "error_fix" ELSE "error_link"
               /\ UNCHANGED <<pmx_bones, r>>
               /\ bone_name_table' = acc.names
          ELSE /\ bones_pc' = "done"
               /\ pmx_bones' = AddPlaceholder(LinkRecords(acc))
               /\ bone_name_table' = acc.names
               /\ r' = [n \in Range(acc.names) |-> IndexOfName(acc.names, n) - 1]
    /\ UNCHANGED <<arm, skinVars, vertexVars, uvVars, morphVars, matVars, execVars, ikVars, limVars, texVars, tableVars, idVars, trackerVars>>

-----------------------------------------------------------------------------
(* Skin weights: __doLoadMeshData (vertex groups, SDEF shape keys) and the   *)
(* weight encoding of __exportMeshes                                         *)

MaxInfluences == 5     \* longest raw group list of a vertex
MaxWeight == 2         \* raw weights are 0..MaxWeight

\* Vertex groups 0..NumBoneGroups-1 carry the names of exported bones; the
\* group NumBoneGroups names no bone (e.g. "mmd_edge_scale").
NumBoneGroups == 5
VertexGroups == 0..NumBoneGroups

\* line 1117: vertex group index -> bone index, for groups named like a bone.
\* Bone indices follow the bone order, not the vertex group order.
vg_to_bone == [g \in 0..(NumBoneGroups - 1) |-> NumBoneGroups - 1 - g]

RawGroups ==
    {s \in InjSeqs(VertexGroups, MaxInfluences) : TRUE}

RECURSIVE WeightSeqs(_)
WeightSeqs(n) ==
    IF n = 0 THEN {<<>>}
    ELSE {Append(t, w) : t \in WeightSeqs(n - 1), w \in 0..MaxWeight}

\* Exact fractions.
Frac(n, d) == [num |-> n, den |-> d]
FracEq(a, b) == a.num * b.den = b.num * a.den
OneMinus(a) == [num |-> a.den - a.num, den |-> a.den]

\* line 1201: keep the groups with weight > 0 that map to an exported bone.
RECURSIVE LoadGroups_KeepZero(_)
LoadGroups_KeepZero(raw) ==
    IF raw = <<>> THEN <<>>
    ELSE IF raw[1].weight >= 0 /\ raw[1].group \in DOMAIN vg_to_bone
         THEN <<<<vg_to_bone[raw[1].group], raw[1].weight>>>> \o LoadGroups_KeepZero(Tail(raw))
         ELSE LoadGroups_KeepZero(Tail(raw))

RECURSIVE LoadGroups(_)
LoadGroups(raw) ==
    IF raw = <<>> THEN <<>>
    ELSE IF raw[1].weight > 0 /\ raw[1].group \in DOMAIN vg_to_bone
         THEN <<<<vg_to_bone[raw[1].group], raw[1].weight>>>> \o LoadGroups(Tail(raw))
         ELSE LoadGroups(Tail(raw))

\* Positions along one axis, in units of 0.001.
BaseCo == 10
SdefEps == 1           \* (c_co - base_co).length < 0.001
SdefC == {BaseCo, BaseCo + 5}
SdefR0 == {BaseCo, 13}
SdefR1 == {BaseCo, 17}
Abs(x) == IF x < 0 THEN -x ELSE x

\* lines 1358-1377: the shape keys mmd_sdef_c / mmd_sdef_r0 / mmd_sdef_r1.
\* c_co is the vertex position under mmd_sdef_c; r0_co, r1_co under the other
\* two keys (BaseCo when the key does not move the vertex).
RestoreSDEF(groups, c_co, r0_co, r1_co) ==
    IF Len(groups) # 2 THEN <<>>
    ELSE IF Abs(c_co - BaseCo) < SdefEps THEN <<>>
    ELSE <<c_co, r0_co, r1_co>>

DoLoadVertex ==
    /\ skin_pc = "raw"
    /\ \E c_co \in SdefC, r0_co \in SdefR0, r1_co \in SdefR1 :
          /\ v_groups' = LoadGroups(v_raw)
          /\ v_sdef' = RestoreSDEF(v_groups', c_co, r0_co, r1_co)
    /\ skin_pc' = "loaded"
    /\ UNCHANGED <<v_raw, pv_weight, bonesVars, vertexVars, uvVars, morphVars, matVars, execVars, ikVars, limVars, texVars, tableVars, idVars, trackerVars>>

\* line 212: v.groups.sort(key=lambda x: -x[1])
Reverse(q) == [i \in DOMAIN q |-> q[Len(q) + 1 - i]]
SortGroups_Unstable(groups) ==
    Reverse(SortedStable([i \in DOMAIN groups |-> [k |-> groups[i][2], x |-> groups[i]]]))

SortGroups(groups) ==
    SortedStable([i \in DOMAIN groups |-> [k |-> -groups[i][2], x |-> groups[i]]])

\* lines 177-220.  The result is [groups, weight, err]: the (possibly sorted)
\* v.groups, the pmx.BoneWeight and whether a division by zero was raised.
EncodeSDEF(groups, sdef) ==
    LET b == <<groups[1][1], groups[2][1]>>
        w == Frac(groups[1][2], groups[1][2] + groups[2][2])
        swap == b[1] > b[2]
    IN [type |-> "SDEF",
        bones |-> IF swap THEN <<b[2], b[1]>> ELSE b,
        weights |-> [weight |-> IF swap THEN OneMinus(w) ELSE w,
                     c |-> sdef[1], r0 |-> sdef[2], r1 |-> sdef[3]]]

EncodeWeight(groups, sdef) ==
    LET t == Len(groups) IN
    CASE t = 0 ->
           [groups |-> groups, err |-> FALSE,
            weight |-> [type |-> "BDEF1", bones |-> <<0>>, weights |-> <<>>]]
      [] t = 1 ->
           [groups |-> groups, err |-> FALSE,
            weight |-> [type |-> "BDEF1", bones |-> <<groups[1][1]>>, weights |-> <<>>]]
      [] t = 2 ->
           IF groups[1][2] + groups[2][2] = 0
           THEN [groups |-> groups, err |-> TRUE, weight |-> [type |-> "none"]]
           ELSE [groups |-> groups, err |-> FALSE,
                 weight |-> IF sdef # <<>>
                            THEN EncodeSDEF(groups, sdef)
                            ELSE [type |-> "BDEF2",
                                  bones |-> <<groups[1][1], groups[2][1]>>,
                                  weights |-> <<Frac(groups[1][2],
                                                     groups[1][2] + groups[2][2])>>]]
      [] OTHER ->
           LET gs == IF t > 4 THEN SortGroups(groups) ELSE groups
               n == Min(t, 4)
               w_all == SumSeq([i \in 1..n |-> gs[i][2]])
           IN IF w_all = 0
              THEN [groups |-> gs, err |-> TRUE, weight |-> [type |-> "none"]]
              ELSE [groups |-> gs, err |-> FALSE,
                    weight |-> [type |-> "BDEF4",
                                bones |-> [i \in 1..4 |-> IF i <= n THEN gs[i][1] ELSE 0],
                                weights |-> [i \in 1..4 |->
                                               Frac(IF i <= n THEN gs[i][2] ELSE 0, w_all)]]]

ExportVertexWeight ==
    /\ skin_pc = "loaded"
    /\ LET e == EncodeWeight(v_groups, v_sdef)
       IN /\ v_groups' = e.groups
          /\ pv_weight' = e.weight
          /\ skin_pc' = IF e.err THEN "error" ELSE "exported"
    /\ UNCHANGED <<v_raw, v_sdef, bonesVars, vertexVars, uvVars, morphVars, matVars, execVars, ikVars, limVars, texVars, tableVars, idVars, trackerVars>>

-----------------------------------------------------------------------------
(* Vertex consolidation: __convertFaceUVToVertexUV, __convertAddUV and the   *)
(* face loops of __doLoadMeshData                                            *)

MaxFaces == 3          \* triangles of the mesh
MaxLayers == 1         \* additional UV layers of the mesh

None == <<>>

\* The mesh is a fan of triangles around source vertex 0:
\* face f has the source vertices 0, f, f+1 (two faces make a quad).
FaceVerts(f) == <<0, f, f + 1>>
SourceVerts(n) == 0..(n + 1)

\* face.area and loop.calc_angle() of the corners.
AreaOf(f) == f
AngleOf(j) == j

\* Thresholds.  UV in units of 0.0005, normals in units of 0.001, colours in
\* units of 0.005.
UVEps == 2             \* 0.001
NormalEps == 10        \* 0.01
ColorEps == 2          \* 0.01
ColorDiffNone == 200   \* 1.0

Len2(v) == SumSeq([i \in DOMAIN v |-> v[i] * v[i]])

WithinUV(a, b) == Len2(VecSub(a, b)) < UVEps * UVEps

WithinNormal(a, b) == Len2(VecSub(a, b)) < NormalEps * NormalEps

\* Corner attribute values.
UV0 == <<0, 0>>
UVClose == <<1, 1>>
UVEdge == <<2, 0>>
UVFar == <<4, 0>>
N0 == <<1000, 0>>
NClose == <<1000, 6>>
NEdge == <<1000, 10>>
NFar == <<0, 1000>>
Zero == <<0, 0, 0, 0>>
Red == <<200, 0, 0, 200>>
RedClose == <<200, 1, 0, 200>>
RedEdge == <<200, 2, 0, 200>>
Blue == <<0, 0, 200, 200>>

DefaultColor(colors) == IF colors THEN Red ELSE Zero

DefaultCorner(colors) == [uv |-> UV0, normal |-> N0, color |-> DefaultColor(colors)]

\* The corners offered to the consolidation: the default corner and the
\* corners differing from it in one attribute.  Without vertex colours
\* (c1 = c2 = c3 = None, line 1277) the colour is always zero.
CornerInputs(colors) ==
    {[uv |-> u, normal |-> N0, color |-> DefaultColor(colors)] : u \in {UV0, UVClose, UVEdge, UVFar}}
    \cup {[uv |-> UV0, normal |-> n, color |-> DefaultColor(colors)] : n \in {NClose, NEdge, NFar}}
    \cup (IF colors
          THEN {[uv |-> UV0, normal |-> N0, color |-> c] : c \in {RedClose, RedEdge, Blue, Zero}}
          ELSE {})

\* With additional UV layers the primary pass only sees UV seams.
CornerInputsLayered(colors) ==
    {[uv |-> u, normal |-> N0, color |-> DefaultColor(colors)] : u \in {UV0, UVFar}}

\* Corners of the source vertices in FreeVerts take any offered value, the
\* other corners the default: both shared vertices of a quad without layers,
\* otherwise the hub of the fan.
FreeVerts(c) == IF c.layers = 0 /\ c.faces <= 2 THEN {0, 2} ELSE {0}

InputsFor(c, s) ==
    IF s \in FreeVerts(c)
    THEN IF c.layers = 0 THEN CornerInputs(c.colors) ELSE CornerInputsLayered(c.colors)
    ELSE {DefaultCorner(c.colors)}

\* _color_to_uv (lines 958-962)
color_to_uv(color_vector) ==
    IF Len2(color_vector) > 0
    THEN <<<<color_vector[1], color_vector[2]>>, <<color_vector[3], color_vector[4]>>>>
    ELSE None

MaxOf(S) == CHOOSE x \in S : \A y \in S : y <= x

color_diff_NoBothNone(existing_color_uv, current_color_uv) ==
    IF existing_color_uv = None \/ current_color_uv = None THEN ColorDiffNone
    ELSE MaxOf({Abs(existing_color_uv[j][k] - current_color_uv[j][k]) : j \in 1..2, k \in 1..2})

\* _color_diff (lines 964-987)
color_diff(existing_color_uv, current_color_uv) ==
    IF existing_color_uv = None /\ current_color_uv = None THEN 0
    ELSE IF existing_color_uv = None \/ current_color_uv = None THEN ColorDiffNone
    ELSE MaxOf({Abs(existing_color_uv[j][k] - current_color_uv[j][k]) : j \in 1..2, k \in 1..2})

\* copy.copy(vertex): a shallow copy, the new _Vertex refers to the same
\* add_uvs list and the same averaging lists.
copy_copy(v) == v

\* First vertex of the list that is uninitialised or compatible (the for loop
\* of lines 993-1003), 0 when the loop falls through.
RECURSIVE FirstSplitHit(_, _, _, _, _, _)
FirstSplitHit(vs, i, heap, uv, normal, cuv) ==
    IF i > Len(vs) THEN 0
    ELSE IF vs[i].uv = None THEN i
    ELSE IF /\ WithinUV(vs[i].uv, uv)
            /\ WithinNormal(normal, vs[i].normal)
            /\ color_diff(heap[vs[i].add_uvs][2], cuv) < ColorEps
         THEN i
    ELSE FirstSplitHit(vs, i + 1, heap, uv, normal, cuv)

\* Splitting mode (lines 992-1012).  Result: [vs, heap, idx, created].
ConvertSplitting(vs, heap, uv, normal, cuv) ==
    LET hit == FirstSplitHit(vs, 1, heap, uv, normal, cuv) IN
    IF hit # 0 /\ vs[hit].uv = None
    THEN [vs |-> [vs EXCEPT ![hit].uv = uv, ![hit].normal = normal],
          heap |-> [heap EXCEPT ![vs[hit].add_uvs][2] = cuv],
          idx |-> hit, created |-> FALSE]
    ELSE IF hit # 0
    THEN [vs |-> vs, heap |-> heap, idx |-> hit, created |-> FALSE]
    ELSE LET n == [copy_copy(vs[1]) EXCEPT !.uv = uv, !.normal = normal]
         IN [vs |-> Append(vs, n),
             heap |-> [heap EXCEPT ![n.add_uvs][2] = cuv],
             idx |-> Len(vs) + 1, created |-> TRUE]

\* The for loop of lines 1017-1024.
RECURSIVE FirstUVHit(_, _, _)
FirstUVHit(vs, i, uv) ==
    IF i > Len(vs) THEN 0
    ELSE IF vs[i].uv = None THEN i
    ELSE IF WithinUV(vs[i].uv, uv) THEN i
    ELSE FirstUVHit(vs, i + 1, uv)

RECURSIVE Gcd(_, _)
Gcd(a, b) == IF b = 0 THEN a ELSE Gcd(b, a % b)

RECURSIVE GcdSeq(_)
GcdSeq(v) == IF v = <<>> THEN 0 ELSE Gcd(Abs(v[1]), GcdSeq(Tail(v)))

\* Vector.normalized(): the unit vector of the direction of v, represented by
\* the smallest integer vector on that ray (the zero vector stays zero).
Normalized(v) ==
    LET g == GcdSeq(v) IN IF g = 0 THEN v ELSE [i \in DOMAIN v |-> v[i] \div g]

RECURSIVE VecSum(_, _)
VecSum(vecs, zero) ==
    IF vecs = <<>> THEN zero
    ELSE LET rest == VecSum(Tail(vecs), zero)
         IN [i \in DOMAIN zero |-> vecs[1][i] + rest[i]]

Scaled(v, k) == [i \in DOMAIN v |-> v[i] * k]

\* An averaged colour: the weighted sum over the total weight, kept as
\* <<uv, zw, total_weight>>; None for the zero colour.
color_to_uv_avg(sum, total) ==
    IF Len2(sum) > 0
    THEN <<<<sum[1], sum[2]>>, <<sum[3], sum[4]>>, total>>
    ELSE None

\* line 1044: angle * area
CornerWeight_AreaOnly(angle, area) == area

CornerWeight(angle, area) == angle * area

\* Non-splitting mode (lines 1014-1064).  lists is the avg_heap.
\* Result: [vs, heap, lists, idx, created].
ConvertAveraging(vs, heap, lists, uv, normal, color_vec, face_area, loop_angle) ==
    LET hit == FirstUVHit(vs, 1, uv)
        idx == IF hit # 0 THEN hit ELSE Len(vs) + 1
        vs1 == IF hit # 0
               THEN (IF vs[hit].uv = None THEN [vs EXCEPT ![hit].uv = uv] ELSE vs)
               ELSE Append(vs, [copy_copy(vs[1]) EXCEPT !.uv = uv])
        \* hasattr(v, "_normal_list"): otherwise four new lists are attached
        fresh == vs1[idx].lists = 0
        ref == IF fresh THEN Len(lists) + 1 ELSE vs1[idx].lists
        lists1 == IF fresh
                  THEN Append(lists, [normals |-> <<>>, colors |-> <<>>,
                                      areas |-> <<>>, angles |-> <<>>])
                  ELSE lists
        l == [normals |-> Append(lists1[ref].normals, normal),
              colors |-> Append(lists1[ref].colors, color_vec),
              areas |-> Append(lists1[ref].areas, face_area),
              angles |-> Append(lists1[ref].angles, loop_angle)]
        weights == [i \in DOMAIN l.angles |-> CornerWeight(l.angles[i], l.areas[i])]
        total_weight == IF SumSeq(weights) = 0 THEN 1 ELSE SumSeq(weights)
        new_normal ==
            IF Cardinality(Range(l.normals)) = 1 THEN normal
            ELSE Normalized(VecSum([i \in DOMAIN weights |-> Scaled(l.normals[i], weights[i])],
                                   <<0, 0>>))
        new_color ==
            IF Cardinality(Range(l.colors)) = 1 THEN color_to_uv(color_vec)
            ELSE color_to_uv_avg(VecSum([i \in DOMAIN weights |-> Scaled(l.colors[i], weights[i])],
                                        Zero),
                                 total_weight)
    IN [vs |-> [vs1 EXCEPT ![idx].lists = ref, ![idx].normal = new_normal],
        heap |-> [heap EXCEPT ![vs1[idx].add_uvs][2] = new_color],
        lists |-> [lists1 EXCEPT ![ref] = l],
        idx |-> idx, created |-> hit = 0]

\* One call of __convertFaceUVToVertexUV from the face loop (lines 1268-1287);
\* the third corner of a face completes the _Face.
NextFacePC ==
    IF vertex_pc.corner < 3 THEN [vertex_pc EXCEPT !.corner = @ + 1]
    ELSE IF vertex_pc.face < cfg.faces THEN [vertex_pc EXCEPT !.face = @ + 1, !.corner = 1]
    ELSE IF cfg.layers > 0 THEN [phase |-> "layers", face |-> 1, corner |-> 1, layer |-> 0]
    ELSE [phase |-> "done", face |-> 1, corner |-> 1, layer |-> 0]

LogCorner(s, in, w, res) ==
    Append(corner_log, [src |-> s, uv |-> in.uv, normal |-> in.normal, color |-> in.color,
                        w |-> w, idx |-> res.idx, created |-> res.created])

CompleteFace(s, idx) ==
    IF vertex_pc.corner < 3 THEN face_seq
    ELSE LET n == Len(corner_log)
         IN Append(face_seq, <<<<corner_log[n - 1].src, corner_log[n - 1].idx>>,
                               <<corner_log[n].src, corner_log[n].idx>>,
                               <<s, idx>>>>)

ConvertCornerSplitting ==
    /\ vertex_pc.phase = "faces"
    /\ cfg.splitting
    /\ LET s == FaceVerts(vertex_pc.face)[vertex_pc.corner] IN
       \E in \in InputsFor(cfg, s) :
          LET res == ConvertSplitting(base_vertices[s], add_uvs_heap, in.uv, in.normal,
                                      color_to_uv(in.color))
          IN /\ base_vertices' = [base_vertices EXCEPT ![s] = res.vs]
             /\ add_uvs_heap' = res.heap
             /\ corner_log' = LogCorner(s, in, AngleOf(vertex_pc.corner) * AreaOf(vertex_pc.face), res)
             /\ face_seq' = CompleteFace(s, res.idx)
    /\ vertex_pc' = NextFacePC
    /\ UNCHANGED <<cfg, avg_heap, rip_vertices_map, rip_log, bonesVars, skinVars, uvVars, morphVars, matVars, execVars, ikVars, limVars, texVars, tableVars, idVars, trackerVars>>

ConvertCornerAveraging ==
    /\ vertex_pc.phase = "faces"
    /\ ~cfg.splitting
    /\ LET s == FaceVerts(vertex_pc.face)[vertex_pc.corner] IN
       \E in \in InputsFor(cfg, s) :
          LET res == ConvertAveraging(base_vertices[s], add_uvs_heap, avg_heap, in.uv, in.normal,
                                      in.color, AreaOf(vertex_pc.face), AngleOf(vertex_pc.corner))
          IN /\ base_vertices' = [base_vertices EXCEPT ![s] = res.vs]
             /\ add_uvs_heap' = res.heap
             /\ avg_heap' = res.lists
             /\ corner_log' = LogCorner(s, in, AngleOf(vertex_pc.corner) * AreaOf(vertex_pc.face), res)
             /\ face_seq' = CompleteFace(s, res.idx)
    /\ vertex_pc' = NextFacePC
    /\ UNCHANGED <<cfg, rip_vertices_map, rip_log, bonesVars, skinVars, uvVars, morphVars, matVars, execVars, ikVars, limVars, texVars, tableVars, idVars, trackerVars>>

BonesIdle ==
    /\ arm = <<>>
    /\ bones_pc = "idle"
    /\ pmx_bones = <<>>
    /\ bone_name_table = <<>>
    /\ r = <<>>

SkinIdle ==
    /\ v_raw = <<>>
    /\ v_groups = <<>>
    /\ v_sdef = <<>>
    /\ pv_weight = [type |-> "none"]
    /\ skin_pc = "idle"

\* Additional UV layer values <<uv, zw>>; zw is _DummyUV (0, 1) unless the
\* mesh has a "_" + name layer.
AddUV0 == <<<<0, 0>>, <<0, 2000>>>>
AddUVClose == <<<<1, 0>>, <<1, 2000>>>>
AddUVFar == <<<<4, 0>>, <<0, 2000>>>>
AddZWFar == <<<<0, 0>>, <<4, 2000>>>>

AddUVInputsFor(c, s) ==
    IF s \in FreeVerts(c) THEN {AddUV0, AddUVClose, AddUVFar, AddZWFar}
    ELSE {AddUV0}

\* lines 1312-1319: the add_uvs slot (0 based) of layer uv_n
actual_uv_index(uv_n, vertex_colors) ==
    IF vertex_colors /\ uv_n >= 1 THEN uv_n + 1 ELSE uv_n

VertexAt(verts, id) == verts[id[1]][id[2]]

\* rip_vertices_map.setdefault(x, [x])
RipsOf(map, x) == IF x \in DOMAIN map THEN map[x] ELSE <<x>>

WithinAddUV_NoZW(uvzw, adduv, addzw) == WithinUV(uvzw[1], adduv)

\* line 1074
WithinAddUV(uvzw, adduv, addzw) == WithinUV(uvzw[1], adduv) /\ WithinUV(uvzw[2], addzw)

\* the for loop of lines 1072-1075: position of the first matching rip, or 0
RECURSIVE FirstRipHit(_, _, _, _, _, _, _)
FirstRipHit(rips, i, verts, heap, slot, adduv, addzw) ==
    IF i > Len(rips) THEN 0
    ELSE IF WithinAddUV(heap[VertexAt(verts, rips[i]).add_uvs][slot], adduv, addzw) THEN i
    ELSE FirstRipHit(rips, i + 1, verts, heap, slot, adduv, addzw)

\* __convertAddUV (lines 1066-1082) for the vertex x; slot is uv_index + 1.
\* Result: [verts, heap, rips, res, created].
ConvertAddUV(x, adduv, addzw, slot, verts, heap, rips) ==
    LET vert == VertexAt(verts, x) IN
    IF heap[vert.add_uvs][slot] = None
    THEN [verts |-> verts,
          heap |-> [heap EXCEPT ![vert.add_uvs][slot] = <<adduv, addzw>>],
          rips |-> rips, res |-> x, created |-> FALSE]
    ELSE LET hit == FirstRipHit(rips, 1, verts, heap, slot, adduv, addzw) IN
         IF hit # 0
         THEN [verts |-> verts, heap |-> heap, rips |-> rips, res |-> rips[hit],
               created |-> FALSE]
         ELSE LET n == [copy_copy(vert) EXCEPT !.add_uvs = Len(heap) + 1]
                  id == <<x[1], Len(verts[x[1]]) + 1>>
              IN [verts |-> [verts EXCEPT ![x[1]] = Append(@, n)],
                  heap |-> Append(heap, [heap[vert.add_uvs] EXCEPT ![slot] = <<adduv, addzw>>]),
                  rips |-> Append(rips, id), res |-> id, created |-> TRUE]

NextLayerPC ==
    IF vertex_pc.corner < 3 THEN [vertex_pc EXCEPT !.corner = @ + 1]
    ELSE IF vertex_pc.face < cfg.faces THEN [vertex_pc EXCEPT !.face = @ + 1, !.corner = 1]
    ELSE IF vertex_pc.layer + 1 < cfg.layers /\ vertex_pc.layer + 1 <= 3
         THEN [vertex_pc EXCEPT !.layer = @ + 1, !.face = 1, !.corner = 1]
    ELSE [phase |-> "done", face |-> 1, corner |-> 1, layer |-> 0]

\* One call of __convertAddUV from the layer loop (lines 1299-1326); a new
\* layer starts with an empty rip_vertices_map.
ConvertCornerAddUV ==
    /\ vertex_pc.phase = "layers"
    /\ LET f == vertex_pc.face
           j == vertex_pc.corner
           x == face_seq[f][j]
           slot == actual_uv_index(vertex_pc.layer, cfg.colors) + 1
           rips == RipsOf(rip_vertices_map, x)
       IN \E in \in AddUVInputsFor(cfg, x[1]) :
            LET res == ConvertAddUV(x, in[1], in[2], slot, base_vertices, add_uvs_heap, rips)
                done == NextLayerPC.phase = "done" \/ NextLayerPC.layer # vertex_pc.layer
            IN /\ base_vertices' = res.verts
               /\ add_uvs_heap' = res.heap
               /\ rip_vertices_map' =
                     IF done THEN <<>>
                     ELSE [y \in DOMAIN rip_vertices_map \cup {x} |->
                             IF y = x THEN res.rips ELSE rip_vertices_map[y]]
               /\ face_seq' = [face_seq EXCEPT ![f][j] = res.res]
               /\ rip_log' = Append(rip_log, [layer |-> vertex_pc.layer, slot |-> slot,
                                              face |-> f, corner |-> j, vert |-> x,
                                              uv |-> in[1], zw |-> in[2],
                                              res |-> res.res, created |-> res.created])
    /\ vertex_pc' = NextLayerPC
    /\ UNCHANGED <<cfg, avg_heap, corner_log, bonesVars, skinVars, uvVars, morphVars, matVars, execVars, ikVars, limVars, texVars, tableVars, idVars, trackerVars>>

-----------------------------------------------------------------------------
(* Auxiliary UV channel budget: the UV layer selection and the layer loop   *)
(* of __doLoadMeshData, the additional_uvs of __exportMeshes, pmx.save      *)

MaxMeshes == 2         \* meshes of one export
MaxUVLayers == 6       \* UV layers of a mesh after the primary one

MaxAddUV == 4          \* PMX supports 4 additional UVs
MaxOtherUVs == 3       \* max_other_uvs

\* A UV layer name is <<prefix, number>>: <<"UV", 2>> is "UV2" and the prefix
\* "_UV" is a name starting with "_" (the zw layer of another layer).
UV2 == <<"UV", 2>>
StartsWithUnderscore(name) == name[1] = "_UV"

\* Two orders of the layers after the primary one:
\* "UV1", "UV2", "UV3", ... and "UV1", "_UV1", "UV3", "UV2", "UV5", ...
LayerNamesPlain(i) == <<"UV", i>>
LayerNamesMixed(i) ==
    IF i = 2 THEN <<"_UV", 1>> ELSE IF i = 4 THEN UV2 ELSE <<"UV", i>>

\* The meshes offered to the export.  color_data: the vertex colours are not
\* all white and the exported vertex has a non zero colour.
MeshInputs ==
    {[uv_layers |-> <<<<"UV", 0>>>> \o [i \in 1..n |-> IF mixed THEN LayerNamesMixed(i)
                                                      ELSE LayerNamesPlain(i)],
      vertex_colors |-> c[1], color_data |-> c[2]] :
        n \in 0..MaxUVLayers, mixed \in BOOLEAN,
        c \in {<<FALSE, FALSE>>, <<TRUE, FALSE>>, <<TRUE, TRUE>>}}

\* lines 1210-1217: base_mesh.uv_layers[1:] without the "_" layers and, with
\* vertex colours, without "UV2"
UsableLayers(mesh) ==
    LET named == SelectSeq(Tail(mesh.uv_layers), LAMBDA x : ~StartsWithUnderscore(x))
    IN IF mesh.vertex_colors THEN SelectSeq(named, LAMBDA x : x # UV2) ELSE named

\* lines 1223-1225
total_uv_needed(mesh, bl_add_uvs) ==
    Len(bl_add_uvs) + (IF mesh.vertex_colors THEN 1 ELSE 0)

LimitLayers_NoColorSlot(mesh, bl_add_uvs) ==
    IF Len(bl_add_uvs) > MaxAddUV THEN SubSeq(bl_add_uvs, 1, MaxAddUV) ELSE bl_add_uvs

\* lines 1227-1243
LimitLayers(mesh, bl_add_uvs) ==
    IF total_uv_needed(mesh, bl_add_uvs) > MaxAddUV
    THEN IF mesh.vertex_colors
         THEN (IF Len(bl_add_uvs) > MaxOtherUVs THEN SubSeq(bl_add_uvs, 1, MaxOtherUVs)
               ELSE bl_add_uvs)
         ELSE (IF Len(bl_add_uvs) > MaxAddUV THEN SubSeq(bl_add_uvs, 1, MaxAddUV)
               ELSE bl_add_uvs)
    ELSE bl_add_uvs

\* lines 1246-1248
UpdateCount(count, mesh, bl_add_uvs) ==
    LET c == Max(count, Len(bl_add_uvs))
    IN IF mesh.vertex_colors THEN Max(Max(c, Len(bl_add_uvs) + 1), 2) ELSE c

\* The add_uvs list of a vertex of the mesh whose corners are all covered:
\* the colour written by the face loop (lines 999, 1010, 1063), then the
\* layers uv_n = 0..3 written by __convertAddUV at actual_uv_index (lines
\* 1299-1326).  err: a slot beyond the 4 entries of add_uvs (IndexError).
RECURSIVE WriteLayers(_, _, _, _)
WriteLayers(add_uvs, bl_add_uvs, uv_n, vertex_colors) ==
    IF uv_n >= Len(bl_add_uvs) \/ uv_n > 3 THEN [add_uvs |-> add_uvs, err |-> FALSE]
    ELSE LET slot == actual_uv_index(uv_n, vertex_colors) + 1
         IN IF slot > Len(add_uvs) THEN [add_uvs |-> add_uvs, err |-> TRUE]
            ELSE WriteLayers([add_uvs EXCEPT ![slot] = <<"layer", bl_add_uvs[uv_n + 1]>>],
                             bl_add_uvs, uv_n + 1, vertex_colors)

VertexAddUVs(mesh, bl_add_uvs) ==
    WriteLayers([<<None, None, None, None>> EXCEPT
                    ![2] = IF mesh.color_data THEN <<"color">> ELSE None],
                bl_add_uvs, 0, mesh.vertex_colors)

\* __doLoadMeshData of the next mesh, as far as the UV channels go.
LoadMeshUV ==
    /\ uv_pc = "load"
    /\ LET mesh == uv_input[Len(uv_meshes) + 1]
           usable == UsableLayers(mesh)
           bl_add_uvs == LimitLayers(mesh, usable)
           v == VertexAddUVs(mesh, bl_add_uvs)
       IN /\ uv_meshes' = Append(uv_meshes,
                 [bl_add_uvs |-> bl_add_uvs,
                  warned |-> total_uv_needed(mesh, usable) > MaxAddUV,
                  add_uvs |-> v.add_uvs])
          /\ add_uv_count' = UpdateCount(add_uv_count, mesh, bl_add_uvs)
          /\ uv_pc' = IF v.err THEN "error"
                      ELSE IF Len(uv_meshes) + 1 < Len(uv_input) THEN "load"
                      ELSE "export"
    /\ UNCHANGED <<uv_input, uv_exported, uv_saved_count, bonesVars, skinVars, vertexVars, morphVars, matVars, execVars, ikVars, limVars, texVars, tableVars, idVars, trackerVars>>

\* lines 160-175: pv.additional_uvs, filled up to the highest slot with data
AdditionalUVs(add_uvs) ==
    LET used == {i \in DOMAIN add_uvs : add_uvs[i] # None}
    IN IF used = {} THEN <<>>
       ELSE [i \in 1..MaxOf(used) |-> IF add_uvs[i] # None THEN add_uvs[i] ELSE <<"zero">>]

\* __exportMeshes for the vertex of the next mesh.
ExportMeshUV ==
    /\ uv_pc = "export"
    /\ LET k == Len(uv_exported) + 1
       IN /\ uv_exported' = Append(uv_exported, AdditionalUVs(uv_meshes[k].add_uvs))
          /\ uv_pc' = IF k < Len(uv_meshes) THEN "export" ELSE "save"
    /\ UNCHANGED <<uv_input, uv_meshes, add_uv_count, uv_saved_count,
                   bonesVars, skinVars, vertexVars, morphVars, matVars, execVars, ikVars, limVars, texVars, tableVars, idVars, trackerVars>>

\* pmx.save(filepath, self.__model, add_uv_count=self.__add_uv_count)
SaveUV ==
    /\ uv_pc = "save"
    /\ uv_saved_count' = add_uv_count
    /\ uv_pc' = "saved"
    /\ UNCHANGED <<uv_input, uv_meshes, add_uv_count, uv_exported,
                   bonesVars, skinVars, vertexVars, morphVars, matVars, execVars, ikVars, limVars, texVars, tableVars, idVars, trackerVars>>

-----------------------------------------------------------------------------
(* Morph tables: __export_group_morphs, __get_pmx_morph_map, the morph sort *)
(* of execute and __exportDisplayItems                                      *)

MaxRefs == 2           \* entries of a group morph's data
MaxFrameItems == 3     \* MORPH items of the display frame

\* A morph is known by (MORPH_TYPES[type(m)], m.name).
VertexA == <<"vertex_morphs", "a">>
BoneA == <<"bone_morphs", "a">>
GroupG == <<"group_morphs", "g">>
Phantom == <<"vertex_morphs", "g">>      \* no morph of this kind and name exists

\* Vertex morphs are exported before bone morphs (lines 1479-1483).
DiscoveryOrder == <<VertexA, BoneA>>

RefKeys == {VertexA, BoneA, GroupG, Phantom}

SeqsUpTo(S, n) == UNION {[1..k -> S] : k \in 0..n}

\* The scenes offered to the export: which vertex and bone morphs exist, the
\* group morphs (none, or "g" with its data) and one display frame, which is
\* the facial frame or another one.
MorphInputs ==
    [base : {SelectSeq(DiscoveryOrder, LAMBDA k : k \in S) : S \in SUBSET Range(DiscoveryOrder)},
     groups : {<<>>} \cup {<<[key |-> GroupG, data |-> d]>> : d \in SeqsUpTo(RefKeys, MaxRefs)},
     frame : [facial : BOOLEAN, data : SeqsUpTo(RefKeys, MaxFrameItems)]]

\* The keys of s in order of first occurrence.
RECURSIVE Dedup(_)
Dedup(s) ==
    IF s = <<>> THEN <<>>
    ELSE LET d == Dedup(SubSeq(s, 1, Len(s) - 1))
         IN IF s[Len(s)] \in Range(d) THEN d ELSE Append(d, s[Len(s)])

get_pmx_morph_map_NoFrame(frame, model_morphs) ==
    Dedup([i \in DOMAIN model_morphs |-> model_morphs[i].key])

\* __get_facial_frame and __get_pmx_morph_map: the keys of the map in index
\* order; the index of a key is its position less 1.
get_pmx_morph_map(frame, model_morphs) ==
    Dedup((IF frame.facial THEN frame.data ELSE <<>>)
          \o [i \in DOMAIN model_morphs |-> model_morphs[i].key])

\* morph_map.get(key, default)
MapGet(morph_map, key, default) ==
    IF key \in Range(morph_map)
    THEN (CHOOSE i \in DOMAIN morph_map : morph_map[i] = key) - 1
    ELSE default

\* __exportVertexMorphs .. __export_uv_morphs: the morphs other than group
\* morphs, in discovery order.
ExportBaseMorphs ==
    /\ morph_pc = "morphs"
    /\ morphs' = [i \in DOMAIN m_input.base |-> [key |-> m_input.base[i], offsets |-> <<>>]]
    /\ morph_pc' = "group"
    /\ UNCHANGED <<m_input, morph_warnings, display, bonesVars, skinVars, vertexVars, uvVars, matVars, execVars, ikVars, limVars, texVars, tableVars, idVars, trackerVars>>

\* The offsets of one group morph (lines 796-804).
GroupOffsets(morph_map, data) ==
    LET idx == [i \in DOMAIN data |-> MapGet(morph_map, data[i], -1)]
    IN SelectSeq(idx, LAMBDA x : ~(x < 0))

GroupWarnings(morph_map, data) ==
    Cardinality({i \in DOMAIN data : MapGet(morph_map, data[i], -1) < 0})

\* __export_group_morphs
ExportGroupMorphs ==
    /\ morph_pc = "group"
    /\ LET groups == m_input.groups
           appended == morphs \o [i \in DOMAIN groups |-> [key |-> groups[i].key, offsets |-> <<>>]]
           morph_map == get_pmx_morph_map(m_input.frame, appended)
       IN /\ morphs' = morphs \o [i \in DOMAIN groups |->
                                    [key |-> groups[i].key,
                                     offsets |-> GroupOffsets(morph_map, groups[i].data)]]
          /\ morph_warnings' = [i \in DOMAIN groups |-> GroupWarnings(morph_map, groups[i].data)]
    /\ morph_pc' = "sort"
    /\ UNCHANGED <<m_input, display, bonesVars, skinVars, vertexVars, uvVars, matVars, execVars, ikVars, limVars, texVars, tableVars, idVars, trackerVars>>

SortInf == 1000        \* float("inf")

\* execute, lines 1488-1489
SortMorphs ==
    /\ morph_pc = "sort"
    /\ LET morph_map == get_pmx_morph_map(m_input.frame, morphs)
       IN morphs' = SortedStable([i \in DOMAIN morphs |->
                        [k |-> MapGet(morph_map, morphs[i].key, SortInf), x |-> morphs[i]]])
    /\ morph_pc' = "display"
    /\ UNCHANGED <<m_input, morph_warnings, display, bonesVars, skinVars, vertexVars, uvVars, matVars, execVars, ikVars, limVars, texVars, tableVars, idVars, trackerVars>>

\* __exportDisplayItems, the MORPH items of the frame
ExportDisplayItems ==
    /\ morph_pc = "display"
    /\ LET morph_map == get_pmx_morph_map(m_input.frame, morphs)
           found == SelectSeq(m_input.frame.data, LAMBDA k : k \in Range(morph_map))
       IN display' = [i \in DOMAIN found |-> <<1, MapGet(morph_map, found[i], -1)>>]
    /\ morph_pc' = "done"
    /\ UNCHANGED <<m_input, morphs, morph_warnings, bonesVars, skinVars, vertexVars, uvVars, matVars, execVars, ikVars, limVars, texVars, tableVars, idVars, trackerVars>>

MorphIdle ==
    /\ m_input = <<>>
    /\ morphs = <<>>
    /\ morph_warnings = <<>>
    /\ display = <<>>
    /\ morph_pc = "idle"

-----------------------------------------------------------------------------
(* Material order: execute (mesh order), __doLoadMeshData (material_faces,  *)
(* material_names), __exportMeshes (mat_map) and Model.materials()          *)

MaxMatMeshes == 2      \* mesh objects of the model
MaxSlots == 2          \* material slots of a mesh

Materials == {"M1", "M2"}
NoMaterial == ""                       \* an empty material slot
DefaultMaterialName == "Material"      \* the name of bpy.data.materials.new("")

\* A mesh object: its name, its material slots and the slots (1 based) that
\* some face refers to by face.material_index.
MatMeshes ==
    {m \in [name : NamesUpTo(MaxMatMeshes),
            slots : UNION {[1..k -> Materials \cup {NoMaterial}] : k \in 1..MaxSlots},
            used : SUBSET (1..MaxSlots)] :
        m.used # {} /\ m.used \subseteq DOMAIN m.slots}

\* The model: up to MaxMatMeshes mesh objects with distinct names, in the
\* order in which Model.meshes() walks the children of the armature.
MatScenes ==
    {sc \in UNION {[1..n -> MatMeshes] : n \in 1..MaxMatMeshes} :
        \A i, j \in DOMAIN sc : i # j => sc[i].name # sc[j].name}

NameRank(name) == CHOOSE i \in DOMAIN NameList : NameList[i] = name

\* execute, line 1452: sorted(meshes, key=lambda x: x.name)
SortedMeshes(sc) == SortedStable([i \in DOMAIN sc |-> [k |-> NameRank(sc[i].name), x |-> sc[i]]])

\* The sequence of the members of a set of numbers, ascending.
RECURSIVE Ascending(_)
Ascending(S) ==
    IF S = {} THEN <<>>
    ELSE LET lo == CHOOSE x \in S : \A y \in S : x <= y IN <<lo>> \o Ascending(S \ {lo})

\* material_names of a mesh (lines 1289-1292) in the order of
\* sorted(mesh.material_faces.items()) (line 127)
MeshMaterialNames(mesh) ==
    LET idx == Ascending(mesh.used)
    IN [i \in DOMAIN idx |-> IF mesh.slots[idx[i]] # NoMaterial THEN mesh.slots[idx[i]]
                             ELSE DefaultMaterialName]

RECURSIVE Concat(_)
Concat(ss) == IF ss = <<>> THEN <<>> ELSE ss[1] \o Concat(Tail(ss))

\* The keys of mat_map (lines 125-131): one material is exported per key, in
\* insertion order (lines 138, 225).
MatMapKeys(meshes) == Dedup(Concat([i \in DOMAIN meshes |-> MeshMaterialNames(meshes[i])]))

\* execute up to __exportMeshes, sort_materials not set.
ExportMaterials ==
    /\ mat_pc = "start"
    /\ mat_exported' = MatMapKeys(SortedMeshes(mat_scene))
    /\ mat_pc' = "done"
    /\ UNCHANGED <<mat_scene, bonesVars, skinVars, vertexVars, uvVars, morphVars, execVars, ikVars, limVars, texVars, tableVars, idVars, trackerVars>>

MatIdle ==
    /\ mat_scene = <<>>
    /\ mat_exported = <<>>
    /\ mat_pc = "idle"

-----------------------------------------------------------------------------
(* The stages of execute                                                    *)

\* The calls execute makes, in program order, for the given arguments.
Stages_SaveBeforeJoints(args) ==
    <<"fix_bone_order", "__exportBones", "__loadMeshData", "__exportMeshes",
      "__exportVertexMorphs", "__exportRigidBodies", "pmx.save", "__exportJoints">>

Stages(args) ==
    <<"fix_bone_order">>
    \o (IF args.translate_in_presets THEN <<"__translate_armature">> ELSE <<>>)
    \o <<"__exportBones", "__loadMeshData", "__exportMeshes">>
    \o (IF args.sort_materials THEN <<"__sortMaterials">> ELSE <<>>)
    \o <<"__exportVertexMorphs">>
    \o (IF args.root
        THEN <<"__export_bone_morphs", "__export_material_morphs", "__export_uv_morphs",
               "__export_group_morphs", "morphs.sort", "__exportDisplayItems">>
        ELSE <<>>)
    \o <<"__exportRigidBodies", "__exportJoints">>
    \o (IF args.copy_textures THEN <<"__copy_textures">> ELSE <<>>)
    \o <<"statistics", "pmx.save">>

NextStage == Stages(exec_args)[Len(exec_done) + 1]

\* The next call returns; after pmx.save execute returns.
RunStage ==
    /\ exec_pc = "run"
    /\ exec_done' = Append(exec_done, NextStage)
    /\ save_calls' = IF NextStage = "pmx.save" THEN save_calls + 1 ELSE save_calls
    /\ exec_pc' = IF Len(exec_done) + 1 = Len(Stages(exec_args)) THEN "returned" ELSE "run"
    /\ UNCHANGED <<exec_args, bonesVars, skinVars, vertexVars, uvVars, morphVars, matVars, ikVars, limVars, texVars, tableVars, idVars, trackerVars>>

\* The next call raises (KeyError of __exportBones, ValueError at line 1270,
\* Exception at line 897, ...): nothing in execute catches it.
RaiseInStage ==
    /\ exec_pc = "run"
    /\ NextStage # "pmx.save"
    /\ exec_pc' = "raised"
    /\ UNCHANGED <<exec_args, exec_done, save_calls,
                   bonesVars, skinVars, vertexVars, uvVars, morphVars, matVars, ikVars, limVars, texVars, tableVars, idVars, trackerVars>>

ExecIdle ==
    /\ exec_args = <<>>
    /\ exec_done = <<>>
    /\ save_calls = 0
    /\ exec_pc = "idle"

UVIdle ==
    /\ uv_input = <<>>
    /\ uv_meshes = <<>>
    /\ add_uv_count = 0
    /\ uv_exported = <<>>
    /\ uv_saved_count = -1
    /\ uv_pc = "idle"

VertexIdle ==
    /\ cfg = [splitting |-> FALSE, colors |-> FALSE, faces |-> 0, layers |-> 0]
    /\ base_vertices = <<>>
    /\ add_uvs_heap = <<>>
    /\ avg_heap = <<>>
    /\ face_seq = <<>>
    /\ rip_vertices_map = <<>>
    /\ corner_log = <<>>
    /\ rip_log = <<>>
    /\ vertex_pc = [phase |-> "idle", face |-> 0, corner |-> 0, layer |-> 0]

-----------------------------------------------------------------------------
(* IK settings: __exportIK with __get_ik_control_bone, __get_ik_target_bone *)
(* and the link targets of __exportIKLinks                                  *)

MaxConstraints == 2

\* The armature is the chain A <- B <- C (B is the child of A, C of B).
IKNames == <<"A", "B", "C">>
IKParentOf(n) == CASE n = "B" -> "A" [] n = "C" -> "B" [] OTHER -> NoBone

\* A subtarget that names no pose bone of the armature.
Missing == "missing"

\* A constraint of type IK: c.subtarget, c.use_tail, c.mute, c.iterations,
\* c.chain_count.
IKConstraints ==
    [subtarget : {"A", "B", Missing}, use_tail : BOOLEAN, mute : {FALSE},
     iterations : {4}, chain_count : {2}]
    \cup {[subtarget |-> "A", use_tail |-> TRUE, mute |-> TRUE, iterations |-> 4, chain_count |-> 2],
          [subtarget |-> "A", use_tail |-> FALSE, mute |-> FALSE, iterations |-> 0, chain_count |-> 1],
          [subtarget |-> "B", use_tail |-> TRUE, mute |-> FALSE, iterations |-> 4, chain_count |-> 0]}

\* The owners of the constraints q[1], q[2], ...: constraints are listed bone
\* by bone, in the order of arm.pose.bones.
Owners(q) == {o \in [DOMAIN q -> DOMAIN IKNames] : \A i, j \in DOMAIN q : i < j => o[i] <= o[j]}

ConstraintsOf(q, o, i) ==
    LET idx == {j \in DOMAIN q : o[j] = i} IN
    IF idx = {} THEN <<>>
    ELSE SubSeq(q, CHOOSE m \in idx : \A x \in idx : m <= x,
                   CHOOSE m \in idx : \A x \in idx : m >= x)

\* arm.pose.bones: B may be the proxy of an IK target (a shadow bone of type
\* IK_TARGET), C may be a shadow bone and may carry the constraint
\* mmd_ik_target_custom with the subtarget custom.
IKPoseBones(q, o, proxyB, shadowC, customC) ==
    [i \in DOMAIN IKNames |->
        [name |-> IKNames[i],
         parent |-> IKParentOf(IKNames[i]),
         shadow |-> (i = 2 /\ proxyB) \/ (i = 3 /\ shadowC),
         ik_target |-> i = 2 /\ proxyB,
         custom |-> IF i = 3 THEN customC ELSE NoName,
         constraints |-> ConstraintsOf(q, o, i)]]

\* bone_map (the r of __exportBones): the non-shadow bones in table order.
RECURSIVE IKBoneMap(_)
IKBoneMap(bones) ==
    IF bones = <<>> THEN <<>>
    ELSE LET rest == IKBoneMap(SubSeq(bones, 1, Len(bones) - 1))
             b == bones[Len(bones)]
         IN IF b.shadow THEN rest ELSE Append(rest, b.name)

\* The constraints in the order the loops at lines 530-533 visit them: shadow
\* bones are skipped.
RECURSIVE IKQueue(_)
IKQueue(bones) ==
    IF bones = <<>> THEN <<>>
    ELSE LET rest == IKQueue(SubSeq(bones, 1, Len(bones) - 1))
             b == bones[Len(bones)]
         IN IF b.shadow THEN rest
            ELSE rest \o [j \in DOMAIN b.constraints |-> [bone |-> b.name, c |-> b.constraints[j]]]

\* lines 566-576; NoBone stands for None.
get_ik_control_bone(bones, c) ==
    IF \A i \in DOMAIN bones : bones[i].name # c.subtarget THEN NoBone
    ELSE LET b == BoneByName(bones, c.subtarget) IN
         IF b.ik_target THEN b.parent ELSE b.name

\* line 522: the keys of ik_target_custom_map that are bone names, and the
\* bone a key maps to (the last one in arm.pose.bones).
InCustomMap(bones, n) ==
    \E i \in DOMAIN bones : ~bones[i].shadow /\ bones[i].custom = n

CustomTarget(bones, n) ==
    LET idx == {i \in DOMAIN bones : ~bones[i].shadow /\ bones[i].custom = n}
    IN bones[CHOOSE m \in idx : \A x \in idx : m >= x].name

\* lines 578-605: a bone of the chain has at most one child, which the
\* override, the use_connect and the nearest-child rule all return.
get_ik_target_bone(bones, n) ==
    LET idx == {i \in DOMAIN bones : ~bones[i].shadow /\ bones[i].parent = n}
    IN IF idx = {} THEN NoBone
       ELSE bones[CHOOSE m \in idx : \A x \in idx : m <= x].name

\* lines 524-528
ik_target_bone_get(bones, ik_constraint_bone, ik_bone) ==
    IF InCustomMap(bones, ik_bone) THEN CustomTarget(bones, ik_bone)
    ELSE get_ik_target_bone(bones, ik_constraint_bone)

RECURSIVE exportIKLinks_SkipMissing(_, _, _, _)
exportIKLinks_SkipMissing(bones, n, count, ik_links) ==
    IF count <= 0 \/ n = NoBone THEN ik_links
    ELSE IF n \notin Range(IKBoneMap(bones))
    THEN exportIKLinks_SkipMissing(bones, BoneByName(bones, n).parent, count, ik_links)
    ELSE exportIKLinks_SkipMissing(bones, BoneByName(bones, n).parent, count - 1,
                       Append(ik_links, IndexOfName(IKBoneMap(bones), n) - 1))

\* lines 460-509: the link targets (the angle limits are left out).
RECURSIVE exportIKLinks(_, _, _, _)
exportIKLinks(bones, n, count, ik_links) ==
    IF count <= 0 \/ n = NoBone \/ n \notin Range(IKBoneMap(bones)) THEN ik_links
    ELSE exportIKLinks(bones, BoneByName(bones, n).parent, count - 1,
                       Append(ik_links, IndexOfName(IKBoneMap(bones), n) - 1))

\* line 558: max(int(c.iterations / ik_loop_factor), 1)
LoopCount(c, ik_loop_factor) == Max(c.iterations \div ik_loop_factor, 1)

\* line 547
IsUsed_Never(pmx_ik_bone) == FALSE

IsUsed(pmx_ik_bone) == pmx_ik_bone.isIK

\* The body of the loop at line 533 for the constraint c of the bone named
\* bone: the bone table after it and the log entry (outcome "muted" for a
\* constraint the test at line 534 passes over, "invalid", "not_found", "used"
\* and "no_target" for the four warnings, "accepted" otherwise).
VisitConstraint(input, table, bone, c) ==
    LET bones == input.bones
        map == IKBoneMap(bones)
        ik_pose_bone == get_ik_control_bone(bones, c)
        ik_bone_index == IF ik_pose_bone \in Range(map)
                         THEN IndexOfName(map, ik_pose_bone) - 1 ELSE -1
        ik_chain0 == IF c.use_tail THEN bone ELSE BoneByName(bones, bone).parent
        ik_target_bone == IF c.use_tail THEN ik_target_bone_get(bones, bone, ik_pose_bone)
                          ELSE bone
        Entry(outcome) == [bone |-> bone, c |-> c, outcome |-> outcome,
                           control |-> ik_bone_index]
    IN IF c.mute THEN [bones |-> table, entry |-> Entry("muted")]
       ELSE IF ik_pose_bone = NoBone THEN [bones |-> table, entry |-> Entry("invalid")]
       ELSE IF ik_bone_index < 0 THEN [bones |-> table, entry |-> Entry("not_found")]
       ELSE IF IsUsed(table[ik_bone_index + 1]) THEN [bones |-> table, entry |-> Entry("used")]
       ELSE IF ik_target_bone = NoBone THEN [bones |-> table, entry |-> Entry("no_target")]
       ELSE [bones |-> [table EXCEPT ![ik_bone_index + 1] =
                           [isIK |-> TRUE,
                            loopCount |-> LoopCount(c, input.ik_loop_factor),
                            target |-> IndexOfName(map, ik_target_bone) - 1,
                            ik_links |-> exportIKLinks(bones, ik_chain0, c.chain_count, <<>>)]],
             entry |-> Entry("accepted")]

\* One pass of the loop at line 533.
IKConstraint ==
    /\ ik_pc = "run"
    /\ Len(ik_log) < Len(IKQueue(ik_arm.bones))
    /\ LET e == IKQueue(ik_arm.bones)[Len(ik_log) + 1]
           res == VisitConstraint(ik_arm, ik_bones, e.bone, e.c)
       IN /\ ik_bones' = res.bones
          /\ ik_log' = Append(ik_log, res.entry)
    /\ UNCHANGED <<ik_arm, ik_pc, bonesVars, skinVars, vertexVars, uvVars, morphVars,
                   matVars, execVars, limVars, texVars, tableVars, idVars, trackerVars>>

\* The loop at line 530 is exhausted.
IKReturn ==
    /\ ik_pc = "run"
    /\ Len(ik_log) = Len(IKQueue(ik_arm.bones))
    /\ ik_pc' = "done"
    /\ UNCHANGED <<ik_arm, ik_bones, ik_log, bonesVars, skinVars, vertexVars, uvVars,
                   morphVars, matVars, execVars, limVars, texVars, tableVars, idVars, trackerVars>>

\* A bone record before __exportIK.
NotIK == [isIK |-> FALSE, loopCount |-> 0, target |-> -1, ik_links |-> <<>>]

IKIdle ==
    /\ ik_arm = <<>>
    /\ ik_bones = <<>>
    /\ ik_log = <<>>
    /\ ik_pc = "idle"

-----------------------------------------------------------------------------
(* Angle limits of an IK link: __exportIKLinks, lines 470-507                *)

\* math.pi, in units of 0.01 rad
Pi == 314

Axes == 1..3    \* "xyz"

IKPolicies == {"EXPORT_ALL", "IGNORE_ALL", "OVERRIDE_CONTROLLED"}

\* The three sources of limits of a link's bone.  "exists" of the custom
\* source: custom_bone has the LIMIT_ROTATION constraint mmd_ik_limit_custom<n>;
\* of the override: pose_bone has a LIMIT_ROTATION constraint that is not
\* muted.  use[i] is use_limit_<axis> (use_ik_limit_<axis> for the native
\* limits), min and max the angles, different for every source and axis.
CustomLimits(exists, use) ==
    [exists |-> exists, use |-> use, min |-> <<-11, -12, -13>>, max |-> <<11, 12, 13>>]
OverrideLimits(exists, use) ==
    [exists |-> exists, use |-> use, min |-> <<-21, -22, -23>>, max |-> <<21, 22, 23>>]
NativeLimits(use) ==
    [use |-> use, min |-> <<-31, -32, -33>>, max |-> <<31, 32, 33>>]

AxisFlags == [Axes -> BOOLEAN]

\* The axis is not limited: the initial values of line 470 stay.
Unused == [min |-> -Pi, max |-> Pi, unused |-> 1]

AxisRule_NativeUnderOverride(input, i) ==
    IF input.custom.exists
    THEN IF input.custom.use[i]
         THEN [min |-> input.custom.min[i], max |-> input.custom.max[i], unused |-> 0]
         ELSE Unused
    ELSE IF input.lock_ik[i] THEN [min |-> 0, max |-> 0, unused |-> 0]
    ELSE IF input.override.exists /\ input.override.use[i]
    THEN [min |-> input.override.min[i], max |-> input.override.max[i], unused |-> 0]
    ELSE IF input.native.use[i]
    THEN [min |-> input.native.min[i], max |-> input.native.max[i], unused |-> 0]
    ELSE Unused

\* lines 479-500: one pass of the loop over "xyz" (policy other than IGNORE_ALL)
AxisRule(input, i) ==
    IF input.custom.exists
    THEN IF input.custom.use[i]
         THEN [min |-> input.custom.min[i], max |-> input.custom.max[i], unused |-> 0]
         ELSE Unused
    ELSE IF input.lock_ik[i] THEN [min |-> 0, max |-> 0, unused |-> 0]
    ELSE IF input.override.exists /\ input.override.use[i]
    THEN [min |-> input.override.min[i], max |-> input.override.max[i], unused |-> 0]
    ELSE IF input.override.exists /\ input.policy = "OVERRIDE_CONTROLLED" THEN Unused
    ELSE IF input.native.use[i]
    THEN [min |-> input.native.min[i], max |-> input.native.max[i], unused |-> 0]
    ELSE Unused

\* lines 470-500: minimum, maximum and unused_counts
LimitAxes ==
    /\ lim_pc = "axes"
    /\ lim_axes' =
          IF lim_in.policy = "IGNORE_ALL"
          THEN [minimum |-> [i \in Axes |-> -Pi], maximum |-> [i \in Axes |-> Pi],
                unused_counts |-> 3]
          ELSE [minimum |-> [i \in Axes |-> AxisRule(lim_in, i).min],
                maximum |-> [i \in Axes |-> AxisRule(lim_in, i).max],
                unused_counts |-> SumSeq([i \in Axes |-> AxisRule(lim_in, i).unused])]
    /\ lim_pc' = "emit"
    /\ UNCHANGED <<lim_in, lim_link, bonesVars, skinVars, vertexVars, uvVars, morphVars,
                   matVars, execVars, ikVars, texVars, tableVars, idVars, trackerVars>>

\* ik_link.minimumAngle and maximumAngle of a new pmx.IKLink: not set.
NoLimits == [converted |-> FALSE, invert |-> FALSE, minimum |-> <<>>, maximum |-> <<>>]

\* line 502
HasLimits_Always(unused_counts) == TRUE

HasLimits(unused_counts) == unused_counts < 3

\* lines 502-507: the limits of the link are the result of
\* convertIKLimitAngles(minimum, maximum, bone_matrix, invert=True), kept as
\* the call with its arguments.
EmitLimits ==
    /\ lim_pc = "emit"
    /\ lim_link' = IF HasLimits(lim_axes.unused_counts)
                   THEN [converted |-> TRUE, invert |-> TRUE,
                         minimum |-> lim_axes.minimum, maximum |-> lim_axes.maximum]
                   ELSE NoLimits
    /\ lim_pc' = "done"
    /\ UNCHANGED <<lim_in, lim_axes, bonesVars, skinVars, vertexVars, uvVars, morphVars,
                   matVars, execVars, ikVars, texVars, tableVars, idVars, trackerVars>>

LimIdle ==
    /\ lim_in = <<>>
    /\ lim_axes = <<>>
    /\ lim_link = NoLimits
    /\ lim_pc = "idle"

-----------------------------------------------------------------------------
(* Texture table: __exportTexture                                            *)

MaxTexCalls == 3

\* The file paths handed to __exportTexture; the current directory and the
\* directory of the .blend file are /t.
TexPaths == {"", " ", "a.png", "/t/a.png", "/t/A.png", "/t/b.png"}

\* filepath.strip() == ""
IsBlank(p) == p \in {"", " "}

\* bpy.path.abspath followed by os.path.abspath
AbsPath(p) == IF p = "a.png" THEN "/t/a.png" ELSE p

\* str.lower() of an absolute path
LowerCase(p) == IF p = "/t/A.png" THEN "/t/a.png" ELSE p

\* os.path.normcase: lower case on Windows ("nt"), the path itself elsewhere.
normcase(platform, p) == IF platform = "nt" THEN LowerCase(p) ELSE p

\* lines 238-240: the index (0 based) of the first entry with the same
\* normalised path, or -1.
FindTexture_Exact(platform, table, filepath) ==
    LET hits == {i \in DOMAIN table : table[i] = filepath}
    IN IF hits = {} THEN -1 ELSE (CHOOSE i \in hits : \A j \in hits : i <= j) - 1

FindTexture(platform, table, filepath) ==
    LET hits == {i \in DOMAIN table : normcase(platform, table[i]) = normcase(platform, filepath)}
    IN IF hits = {} THEN -1 ELSE (CHOOSE i \in hits : \A j \in hits : i <= j) - 1

\* One call of __exportTexture(filepath), lines 232-246.
ExportTexture ==
    /\ Len(tex_calls) < MaxTexCalls
    /\ tex_env.platform # "idle"
    /\ \E filepath \in TexPaths :
          IF IsBlank(filepath)
          THEN /\ tex_calls' = Append(tex_calls, [filepath |-> filepath, result |-> -1,
                                                  warned |-> FALSE])
               /\ UNCHANGED textures
          ELSE LET path == AbsPath(filepath)
                   found == FindTexture(tex_env.platform, textures, path)
               IN IF found >= 0
                  THEN /\ tex_calls' = Append(tex_calls, [filepath |-> filepath,
                                                result |-> found, warned |-> FALSE])
                       /\ UNCHANGED textures
                  ELSE /\ textures' = Append(textures, path)
                       /\ tex_calls' = Append(tex_calls, [filepath |-> filepath,
                                                result |-> Len(textures),
                                                warned |-> path \notin tex_env.files])
    /\ UNCHANGED <<tex_env, bonesVars, skinVars, vertexVars, uvVars, morphVars,
                   matVars, execVars, ikVars, limVars, tableVars, idVars, trackerVars>>

TexIdle ==
    /\ tex_env = [platform |-> "idle", files |-> {}]
    /\ textures = <<>>
    /\ tex_calls = <<>>

-----------------------------------------------------------------------------
(* Faces, materials and morph indices: __exportMeshes, __exportMaterial,     *)
(* __sortMaterials, __export_bone_morphs, __export_material_morphs           *)

MaxModelFaces == 3     \* faces of the model, over all meshes

\* A face of a mesh: face.material_index (slot, 1 based) and the place of the
\* triangle on a line.  A face has its own three vertices, at co, co, co + 1.
FaceCos == {0, 3}
MeshSlots == 1..2
MeshFaces == [slot : MeshSlots, co : FaceCos]
FaceVertexCos(face) == <<face.co, face.co, face.co + 1>>

\* The bones of an armature without hierarchy.
FlatProps ==
    [bone_id : BoneIds, shadow : BOOLEAN, parent : {NoBone},
     connected : {FALSE}, is_tip : {FALSE},
     display_connection_type : {"OFFSET"}, display_connection_bone_id : {-1},
     additional_transform_bone : {NoName}]

\* mmd_root.bone_morphs / mmd_root.material_morphs: the names in the data of
\* one morph.  "M3" is a material no face uses, "" stands for all materials;
\* the last bone name is the name of no bone of the armature.
BoneMorphData == NamePrefix(MaxBones + 1)
MaterialMorphData == <<"M2", "", "M3", "M1">>

\* list.index(x): the first position (0 based) of x.
list_index(table, x) ==
    (CHOOSE i \in DOMAIN table : table[i] = x /\ \A j \in DOMAIN table : table[j] = x => i <= j) - 1

\* mesh.material_faces (lines 1285-1287) of mesh mi in the order of
\* sorted(mesh.material_faces.items()) (line 127), each entry with
\* mesh.material_names[index]; a face is named <<mesh, position>>.
MaterialFaces(meshes, mi) ==
    LET mesh == meshes[mi]
        idx == Ascending({mesh.faces[i].slot : i \in DOMAIN mesh.faces})
        At(s) == Ascending({i \in DOMAIN mesh.faces : mesh.faces[i].slot = s})
    IN [j \in DOMAIN idx |->
          [name |-> mesh.slots[idx[j]],
           faces |-> [n \in DOMAIN At(idx[j]) |-> <<mi, At(idx[j])[n]>>]]]

RECURSIVE FacesNamed(_, _)
FacesNamed(items, name) ==
    IF items = <<>> THEN <<>>
    ELSE (IF items[1].name = name THEN items[1].faces ELSE <<>>)
         \o FacesNamed(Tail(items), name)

\* lines 125-131: mat_map, an OrderedDict material name -> face lists, as the
\* sequence of its items; the face lists of a name are joined.
mat_map(meshes) ==
    LET items == Concat([mi \in DOMAIN meshes |-> MaterialFaces(meshes, mi)])
        keys == Dedup([i \in DOMAIN items |-> items[i].name])
    IN [k \in DOMAIN keys |-> [name |-> keys[k], faces |-> FacesNamed(items, keys[k])]]

\* lines 138-225 and __exportMaterial: every face brings three new vertices
\* (v.index is None), is appended as the triple of their indices, and one
\* material with vertex_count = face_count * 3 is appended per key.
exportMeshes(meshes) ==
    LET mm == mat_map(meshes)
        order == Concat([k \in DOMAIN mm |-> mm[k].faces])
        SrcFace(src) == meshes[src[1]].faces[src[2]]
    IN [vertices |-> [i \in 1..(3 * Len(order)) |->
                        [co |-> FaceVertexCos(SrcFace(order[((i - 1) \div 3) + 1]))[((i - 1) % 3) + 1],
                         src |-> order[((i - 1) \div 3) + 1]]],
        faces |-> [n \in DOMAIN order |-> <<3 * (n - 1), 3 * (n - 1) + 1, 3 * (n - 1) + 2>>],
        materials |-> [k \in DOMAIN mm |->
                        [name |-> mm[k].name, vertex_count |-> Len(mm[k].faces) * 3]],
        names |-> [k \in DOMAIN mm |-> mm[k].name]]

RECURSIVE ProdSeq(_)
ProdSeq(s) == IF s = <<>> THEN 1 ELSE s[1] * ProdSeq(Tail(s))

\* lines 673-690: the sort entries (d / mat.vertex_count, mat, offset,
\* face_num, bl_mat_name).  The centre is S / N, S the sum of the vertex
\* coordinates and N their number; the key of an entry is kept with the
\* common denominator N * (product of all vertex counts).
SortEntries(vertices, faces, materials, names) ==
    LET N == Len(vertices)
        S == SumSeq([i \in DOMAIN vertices |-> vertices[i].co])
        Dist(i) == Abs(N * vertices[i + 1].co - S)
        FaceNum(k) == materials[k].vertex_count \div 3
        Offset(k) == SumSeq([j \in 1..(k - 1) |-> FaceNum(j)])
        D(k) == SumSeq([n \in 1..FaceNum(k) |->
                   LET face == faces[Offset(k) + n]
                   IN Dist(face[1]) + Dist(face[2]) + Dist(face[3])])
        Others(k) == ProdSeq([j \in DOMAIN materials |->
                        IF j = k THEN 1 ELSE materials[j].vertex_count])
    IN [k \in 1..Min(Len(materials), Len(names)) |->
          [k |-> D(k) * Others(k),
           x |-> [mat |-> materials[k], offset |-> Offset(k), face_num |-> FaceNum(k),
                  bl_mat_name |-> names[k]]]]

\* lines 691-700: the tables rebuilt in the order of sorted(distances).
sortMaterials_KeepFaces(vertices, faces, materials, names) ==
    LET sorted == SortedStable(SortEntries(vertices, faces, materials, names))
    IN [faces |-> faces,
        materials |-> [i \in DOMAIN sorted |-> sorted[i].mat],
        names |-> [i \in DOMAIN sorted |-> sorted[i].bl_mat_name]]

sortMaterials(vertices, faces, materials, names) ==
    LET sorted == SortedStable(SortEntries(vertices, faces, materials, names))
    IN [faces |-> Concat([i \in DOMAIN sorted |->
                     SubSeq(faces, sorted[i].offset + 1, sorted[i].offset + sorted[i].face_num)]),
        materials |-> [i \in DOMAIN sorted |-> sorted[i].mat],
        names |-> [i \in DOMAIN sorted |-> sorted[i].bl_mat_name]]

\* __exportMeshes with vertex sorting off (self.__vertex_order_map is None);
\* execute calls it after __exportBones.
ExportMeshes ==
    /\ tb_pc = "meshes"
    /\ bones_pc = "done"
    /\ LET out == exportMeshes(tb_in.meshes)
       IN /\ model_vertices' = out.vertices
          /\ model_faces' = out.faces
          /\ model_materials' = out.materials
          /\ material_name_table' = out.names
    /\ tb_pc' = IF tb_in.sort_materials THEN "sort" ELSE "bone_morphs"
    /\ UNCHANGED <<tb_in, bone_offsets, material_offsets, material_warnings,
                   bonesVars, skinVars, vertexVars, uvVars, morphVars, matVars,
                   execVars, ikVars, limVars, texVars, idVars, trackerVars>>

\* __sortMaterials, called when args "sort_materials" is set.
SortMaterials ==
    /\ tb_pc = "sort"
    /\ LET out == sortMaterials(model_vertices, model_faces, model_materials,
                                material_name_table)
       IN /\ model_faces' = out.faces
          /\ model_materials' = out.materials
          /\ material_name_table' = out.names
    /\ tb_pc' = "bone_morphs"
    /\ UNCHANGED <<tb_in, model_vertices, bone_offsets, material_offsets, material_warnings,
                   bonesVars, skinVars, vertexVars, uvVars, morphVars, matVars,
                   execVars, ikVars, limVars, texVars, idVars, trackerVars>>

\* lines 734-743: the index of a bone morph data item, <<>> when
\* list.index raises ValueError (the item is skipped).
bone_index(table, bone) ==
    IF bone \in Range(table) THEN <<list_index(table, bone)>> ELSE <<>>

\* lines 643-650: the index of a material morph data item, <<>> when
\* list.index raises ValueError (warning, the item is skipped).
material_index_MissingIsAll(table, material) ==
    IF material # "" /\ material \in Range(table)
    THEN <<list_index(table, material)>> ELSE <<-1>>

material_index(table, material) ==
    IF material = "" THEN <<-1>>
    ELSE IF material \in Range(table) THEN <<list_index(table, material)>> ELSE <<>>

\* The offsets appended for the data items, in order.
RECURSIVE Offsets(_, _)
Offsets(data, index) ==
    IF data = <<>> THEN <<>>
    ELSE (IF index[1] = <<>> THEN <<>> ELSE <<[name |-> data[1], index |-> index[1][1]]>>)
         \o Offsets(Tail(data), Tail(index))

\* __export_bone_morphs for one morph.
ExportBoneMorphs ==
    /\ tb_pc = "bone_morphs"
    /\ bone_offsets' = Offsets(tb_in.bone_morph,
           [i \in DOMAIN tb_in.bone_morph |-> bone_index(bone_name_table, tb_in.bone_morph[i])])
    /\ tb_pc' = "material_morphs"
    /\ UNCHANGED <<tb_in, model_vertices, model_faces, model_materials, material_name_table,
                   material_offsets, material_warnings,
                   bonesVars, skinVars, vertexVars, uvVars, morphVars, matVars,
                   execVars, ikVars, limVars, texVars, idVars, trackerVars>>

\* __export_material_morphs for one morph.
ExportMaterialMorphs ==
    /\ tb_pc = "material_morphs"
    /\ LET data == tb_in.material_morph
           index == [i \in DOMAIN data |-> material_index(material_name_table, data[i])]
       IN /\ material_offsets' = Offsets(data, index)
          /\ material_warnings' = {data[i] : i \in {j \in DOMAIN data : index[j] = <<>>}}
    /\ tb_pc' = "done"
    /\ UNCHANGED <<tb_in, model_vertices, model_faces, model_materials, material_name_table,
                   bone_offsets, bonesVars, skinVars, vertexVars, uvVars, morphVars, matVars,
                   execVars, ikVars, limVars, texVars, idVars, trackerVars>>

TablesIdle ==
    /\ tb_in = <<>>
    /\ model_vertices = <<>>
    /\ model_faces = <<>>
    /\ model_materials = <<>>
    /\ material_name_table = <<>>
    /\ bone_offsets = <<>>
    /\ material_offsets = <<>>
    /\ material_warnings = {}
    /\ tb_pc = "idle"

-----------------------------------------------------------------------------
(* Bone IDs: FnModel.unsafe_change_bone_id, safe_change_bone_id and          *)
(* realign_bone_ids (core/model.py)                                           *)

MaxChangeId == 2       \* bone IDs and references are -1..MaxChangeId

\* The pose bones of the armature, in the order of pose.bones.
IdNames == <<"A", "B", "C">>
IdValues == -1..MaxChangeId
IdOffsets == 0..1
SortingMethods == {"FIX-MOVE-CHILDREN", "REBUILD-DEPTH", "REBUILD-PATH"}

\* bone.parent of the bones: no parents, a chain from A, a chain from C, and
\* B as the parent of A and C.
IdParents ==
    {[n \in Range(IdNames) |-> NoBone],
     [n \in Range(IdNames) |-> IF n = "A" THEN NoBone ELSE IF n = "B" THEN "A" ELSE "B"],
     [n \in Range(IdNames) |-> IF n = "C" THEN NoBone ELSE IF n = "B" THEN "C" ELSE "B"],
     [n \in Range(IdNames) |-> IF n = "B" THEN NoBone ELSE "B"]}

IdBoneIndex(bones, n) == CHOOSE i \in DOMAIN bones : bones[i].name = n

\* unsafe_change_bone_id (lines 252-279); st = [bones, morph], b the position
\* of the bone.
unsafe_change_bone_id(st, b, new_bone_id) ==
    LET bone_id == st.bones[b].bone_id
        Ref(holder, x) == IF ~holder.shadow /\ x = bone_id THEN new_bone_id ELSE x
    IN [bones |-> [i \in DOMAIN st.bones |->
                     LET pb == [st.bones[i] EXCEPT !.bone_id = IF i = b THEN new_bone_id ELSE @]
                     IN [pb EXCEPT
                           !.additional_transform_bone_id = Ref(pb, @),
                           !.display_connection_bone_id = Ref(pb, @)]],
        morph |-> [k \in DOMAIN st.morph |->
                     IF st.morph[k] = bone_id THEN new_bone_id ELSE st.morph[k]]]

\* lines 301-311: the bones of consecutive IDs from current_id on, as
\* positions of the sorted list.
RECURSIVE RunFrom(_, _, _, _)
RunFrom(bones, sorted, k, current_id) ==
    IF k > Len(sorted) \/ bones[sorted[k]].bone_id # current_id THEN <<>>
    ELSE <<sorted[k]>> \o RunFrom(bones, sorted, k + 1, current_id + 1)

\* lines 313-318: the shifts, in the given order.
RECURSIVE ShiftAll(_, _)
ShiftAll(st, order) ==
    IF order = <<>> THEN st
    ELSE ShiftAll(unsafe_change_bone_id(st, order[1], st.bones[order[1]].bone_id + 1),
                  Tail(order))

Reversed(s) == [i \in DOMAIN s |-> s[Len(s) + 1 - i]]

\* safe_change_bone_id (lines 282-321)
safe_change_bone_id(st, b, new_id) ==
    LET new_bone_id == IF new_id < 0 THEN 0 ELSE new_id
        bones_using_id == {i \in DOMAIN st.bones : st.bones[i].bone_id = new_bone_id}
        above == Ascending({i \in DOMAIN st.bones : st.bones[i].bone_id >= new_bone_id})
        by_id == SortedStable([j \in DOMAIN above |->
                    [k |-> st.bones[above[j]].bone_id, x |-> above[j]]])
        bones_to_shift == Reversed(RunFrom(st.bones, by_id, 1, new_bone_id))
        shifted == IF bones_using_id # {} THEN ShiftAll(st, bones_to_shift) ELSE st
    IN unsafe_change_bone_id(shifted, b, new_bone_id)

\* get_hierarchy_depth (lines 440-446)
RECURSIVE get_hierarchy_depth(_, _)
get_hierarchy_depth(bones, b) ==
    IF bones[b].parent = NoBone THEN 0
    ELSE 1 + get_hierarchy_depth(bones, IdBoneIndex(bones, bones[b].parent))

\* The sort keys are tuples; a tuple is kept as the number with the tuple's
\* members as digits to the base KeyBase, a name as its rank and a missing
\* member as 0.
KeyBase == Len(NameList) + 1

\* bone_hierarchy_path (lines 448-454): the names from the root to the bone.
RECURSIVE bone_hierarchy_path(_, _)
bone_hierarchy_path(bones, b) ==
    (IF bones[b].parent = NoBone THEN <<>>
     ELSE bone_hierarchy_path(bones, IdBoneIndex(bones, bones[b].parent)))
    \o <<bones[b].name>>

PathKey(path) ==
    SumSeq([i \in DOMAIN IdNames |->
              IF i \in DOMAIN path
              THEN NameRank(path[i]) * ProdSeq([j \in 1..(Len(IdNames) - i) |-> KeyBase])
              ELSE 0])

\* lines 458-469: the largest ID of the non-shadow ancestors, -1 without one.
RECURSIVE max_ancestor_id(_, _)
max_ancestor_id(bones, b) ==
    IF bones[b].parent = NoBone THEN -1
    ELSE LET p == IdBoneIndex(bones, bones[b].parent)
             up == max_ancestor_id(bones, p)
         IN IF ~bones[p].shadow /\ bones[p].bone_id >= 0 THEN Max(up, bones[p].bone_id) ELSE up

\* get_fix_key_move_children (lines 456-479): (1, max_ancestor_id + 0.1,
\* depth, name) for a bone at or before an ancestor, otherwise
\* (0, bone_id or inf, name).
get_fix_key_move_children(bones, b) ==
    LET anc == max_ancestor_id(bones, b)
        current_id == bones[b].bone_id
    IN IF anc >= 0 /\ current_id >= 0 /\ anc >= current_id
       THEN (KeyInf + 1 + anc) * KeyBase * KeyBase
            + get_hierarchy_depth(bones, b) * KeyBase + NameRank(bones[b].name)
       ELSE (IF current_id >= 0 THEN current_id ELSE KeyInf) * KeyBase
            + NameRank(bones[b].name)

\* line 482: the bones that get an ID.
valid_bones_WithShadow(bones) == Ascending(DOMAIN bones)

valid_bones(bones) == Ascending({i \in DOMAIN bones : ~bones[i].shadow})

\* lines 485-493
SortKeyOf(bones, b, sorting_method) ==
    IF sorting_method = "REBUILD-DEPTH"
    THEN get_hierarchy_depth(bones, b) * KeyBase + NameRank(bones[b].name)
    ELSE IF sorting_method = "REBUILD-PATH"
    THEN PathKey(bone_hierarchy_path(bones, b))
    ELSE get_fix_key_move_children(bones, b)

\* lines 495-498: the IDs are given in the sorted order.
RECURSIVE Reassign(_, _, _, _)
Reassign(st, order, i, bone_id_offset) ==
    IF i > Len(order) THEN st
    ELSE LET new_id == bone_id_offset + (i - 1)
         IN Reassign(IF st.bones[order[i]].bone_id # new_id
                     THEN safe_change_bone_id(st, order[i], new_id) ELSE st,
                     order, i + 1, bone_id_offset)

\* realign_bone_ids (lines 437-498)
realign_bone_ids(st, bone_id_offset, sorting_method) ==
    LET valid == valid_bones(st.bones)
        order == SortedStable([j \in DOMAIN valid |->
                    [k |-> SortKeyOf(st.bones, valid[j], sorting_method), x |-> valid[j]]])
    IN Reassign(st, order, 1, bone_id_offset)

NoCall == [op |-> "none"]

\* One call of safe_change_bone_id on this armature.
SafeChangeBoneId ==
    /\ id_call = NoCall
    /\ id_bones # <<>>
    /\ \E b \in DOMAIN id_bones, new_id \in IdValues :
          LET out == safe_change_bone_id([bones |-> id_bones, morph |-> id_morph], b, new_id)
          IN /\ id_bones' = out.bones
             /\ id_morph' = out.morph
             /\ id_call' = [op |-> "safe_change_bone_id", bone |-> b, new_bone_id |-> new_id,
                            bones |-> id_bones, morph |-> id_morph]
    /\ UNCHANGED <<bonesVars, skinVars, vertexVars, uvVars, morphVars, matVars, execVars,
                   ikVars, limVars, texVars, tableVars, trackerVars>>

\* One call of realign_bone_ids on this armature.
RealignBoneIds ==
    /\ id_call = NoCall
    /\ id_bones # <<>>
    /\ \E offset \in IdOffsets, method \in SortingMethods :
          LET out == realign_bone_ids([bones |-> id_bones, morph |-> id_morph], offset, method)
          IN /\ id_bones' = out.bones
             /\ id_morph' = out.morph
             /\ id_call' = [op |-> "realign_bone_ids", offset |-> offset, method |-> method,
                            bones |-> id_bones, morph |-> id_morph]
    /\ UNCHANGED <<bonesVars, skinVars, vertexVars, uvVars, morphVars, matVars, execVars,
                   ikVars, limVars, texVars, tableVars, trackerVars>>

BoneIdsIdle ==
    /\ id_bones = <<>>
    /\ id_morph = <<>>
    /\ id_call = NoCall

-----------------------------------------------------------------------------
(* Auto-export tracker: track_mmd_changes, forced_check_handler,             *)
(* check_stability_timeout and export_model (auto_export.py)                 *)
(*                                                                           *)
(* The scene holds one model root "R" with one mesh.  Blender calls          *)
(* track_mmd_changes after every change of the scene, forced_check_handler   *)
(* every 5 seconds and a registered check_stability_timeout once.            *)
(* bpy.app.timers.register returns None, so the module global                *)
(* stability_timer is None throughout: "not stability_timer" (line 460)      *)
(* holds and the cancelling branch of lines 454-457 is never taken.          *)

MaxTimers == 2         \* registered stability timers
MaxExports == 2        \* calls of export_model

NoRoot == "None"
NoState == [prec |-> 0, pos |-> 0]
Positions == {1, 2}

\* The state string of the mesh: track_mmd_changes formats the transform with
\* 3 decimals (line 415), forced_check_handler with 2 (line 287).
StateString(prec, pos) == [prec |-> prec, pos |-> pos]

\* is_valid_object (lines 38-44)
is_valid_object(scene, obj) == obj # NoRoot /\ scene.root_exists

\* lines 240-244, 328-332: a reference to a deleted object is dropped.
CleanRef(scene, ref) == IF ref # NoRoot /\ ~is_valid_object(scene, ref) THEN NoRoot ELSE ref

\* The stability timers forced_check_handler registers (lines 309-315):
\* stability_timer is assigned in the function and not declared global, so
\* reading it at line 309 raises UnboundLocalError, which line 316 catches.
RegisteredByForcedCheck == 0

\* track_mmd_changes(scene) (lines 323-482) after a change of the scene that leaves the mesh
\* at pos; active: the active object belongs to the model; edit: it is a mesh
\* of the model in edit mode.
TrackChanges ==
    \E pos \in Positions, active \in BOOLEAN, edit \in BOOLEAN :
    LET scene == [ae_scene EXCEPT !.pos = pos]
        valid == scene.root_exists
        rte1 == CleanRef(scene, root_to_export)
        lar1 == CleanRef(scene, last_active_root)
        os1 == IF valid THEN object_states ELSE NoState
        is1 == IF ~valid /\ object_states # NoState THEN NoState ELSE initial_states
        active_obj_root == IF active /\ valid THEN "R" ELSE NoRoot
        enabled == IF active_obj_root # NoRoot THEN scene.root_auto ELSE auto_export_enabled
        returns == \/ ~enabled
                   \/ recent_export /\ ~changes_detected
                   \/ ~valid
        lar2 == IF active_obj_root # NoRoot THEN active_obj_root ELSE lar1
        current_state == StateString(3, pos)
        changed == (os1 # NoState /\ os1 # current_state) \/ (edit /\ active_obj_root # NoRoot)
        any_moving == changed
        detected == changes_detected \/ changed
        rte2 == IF changed /\ ~changes_detected /\ ("R" = active_obj_root \/ rte1 = NoRoot)
                THEN "R" ELSE rte1
        relevant_root == IF rte2 # NoRoot THEN rte2
                         ELSE IF active_obj_root # NoRoot THEN active_obj_root ELSE lar2
        registers == detected /\ ~any_moving /\ relevant_root # NoRoot
    IN /\ edit => active
       /\ auto_export_enabled' = enabled
       /\ export_calls' = export_calls
       /\ recent_export' = recent_export
       /\ IF returns
          THEN /\ ae_scene' = scene
               /\ object_states' = os1
               /\ initial_states' = is1
               /\ root_to_export' = rte1
               /\ last_active_root' = lar1
               /\ UNCHANGED <<changes_detected, timers_pending>>
          ELSE /\ registers => timers_pending < MaxTimers
               /\ ae_scene' = [scene EXCEPT !.moving = any_moving]
               /\ object_states' = current_state
               /\ initial_states' = IF is1 = NoState THEN current_state ELSE is1
               /\ changes_detected' = detected
               /\ root_to_export' = IF registers THEN relevant_root ELSE rte2
               /\ last_active_root' = lar2
               /\ timers_pending' = timers_pending + (IF registers THEN 1 ELSE 0)
    /\ UNCHANGED <<bonesVars, skinVars, vertexVars, uvVars, morphVars, matVars, execVars,
                   ikVars, limVars, texVars, tableVars, idVars>>

\* forced_check_handler (lines 236-319)
ForcedCheck ==
    \E active \in BOOLEAN :
    LET valid == ae_scene.root_exists
        rte1 == CleanRef(ae_scene, root_to_export)
        lar1 == CleanRef(ae_scene, last_active_root)
        active_root == IF active /\ valid THEN "R" ELSE NoRoot
        relevant_root == IF active_root # NoRoot THEN active_root ELSE lar1
        current_state == StateString(2, ae_scene.pos)
        significant_change == initial_states # NoState /\ initial_states # current_state
    IN /\ last_active_root' = lar1
       /\ IF recent_export \/ changes_detected \/ relevant_root = NoRoot
          THEN /\ root_to_export' = rte1
               /\ UNCHANGED <<initial_states, changes_detected, timers_pending>>
          ELSE /\ initial_states' = IF initial_states = NoState THEN current_state
                                    ELSE initial_states
               /\ changes_detected' = significant_change
               /\ root_to_export' = IF significant_change THEN relevant_root ELSE rte1
               /\ significant_change => timers_pending + RegisteredByForcedCheck <= MaxTimers
               /\ timers_pending' = timers_pending
                     + (IF significant_change THEN RegisteredByForcedCheck ELSE 0)
    /\ UNCHANGED <<ae_scene, object_states, auto_export_enabled, recent_export, export_calls,
                   bonesVars, skinVars, vertexVars, uvVars, morphVars, matVars, execVars,
                   ikVars, limVars, texVars, tableVars, idVars>>

\* check_stability_timeout (lines 210-233) with export_model (lines 47-92);
\* ok: bpy.ops.mmd_tools.export_pmx_quick() returns without an exception.
StabilityTimeout ==
    /\ timers_pending > 0
    /\ timers_pending' = timers_pending - 1
    /\ IF changes_detected /\ is_valid_object(ae_scene, root_to_export)
       THEN /\ export_calls < MaxExports
            /\ export_calls' = export_calls + 1
            /\ auto_export_enabled' = TRUE
            /\ \E ok \in BOOLEAN :
                  IF ok
                  THEN /\ recent_export' = TRUE
                       /\ changes_detected' = FALSE
                       /\ initial_states' = NoState
                  ELSE UNCHANGED <<recent_export, changes_detected, initial_states>>
            /\ UNCHANGED root_to_export
       ELSE /\ IF root_to_export # NoRoot /\ ~is_valid_object(ae_scene, root_to_export)
               THEN /\ root_to_export' = NoRoot
                    /\ changes_detected' = FALSE
               ELSE UNCHANGED <<root_to_export, changes_detected>>
            /\ UNCHANGED <<export_calls, auto_export_enabled, recent_export, initial_states>>
    /\ UNCHANGED <<ae_scene, object_states, last_active_root,
                   bonesVars, skinVars, vertexVars, uvVars, morphVars, matVars, execVars,
                   ikVars, limVars, texVars, tableVars, idVars>>

\* MIN_EXPORT_INTERVAL has passed since last_export_time.
TimePasses ==
    /\ recent_export
    /\ recent_export' = FALSE
    /\ UNCHANGED <<ae_scene, object_states, initial_states, changes_detected, root_to_export,
                   last_active_root, auto_export_enabled, timers_pending, export_calls,
                   bonesVars, skinVars, vertexVars, uvVars, morphVars, matVars, execVars,
                   ikVars, limVars, texVars, tableVars, idVars>>

\* The user deletes the model (root and mesh).
DeleteRoot ==
    /\ ae_scene.root_exists
    /\ ae_scene' = [ae_scene EXCEPT !.root_exists = FALSE]
    /\ UNCHANGED <<object_states, initial_states, changes_detected, root_to_export,
                   last_active_root, auto_export_enabled, recent_export, timers_pending,
                   export_calls,
                   bonesVars, skinVars, vertexVars, uvVars, morphVars, matVars, execVars,
                   ikVars, limVars, texVars, tableVars, idVars>>

\* The user switches mmd_root.auto_export_enabled of the root.
ToggleAutoExport ==
    /\ ae_scene.root_exists
    /\ ae_scene' = [ae_scene EXCEPT !.root_auto = ~@]
    /\ UNCHANGED <<object_states, initial_states, changes_detected, root_to_export,
                   last_active_root, auto_export_enabled, recent_export, timers_pending,
                   export_calls,
                   bonesVars, skinVars, vertexVars, uvVars, morphVars, matVars, execVars,
                   ikVars, limVars, texVars, tableVars, idVars>>

TrackerIdle ==
    /\ ae_scene = <<>>
    /\ object_states = NoState
    /\ initial_states = NoState
    /\ changes_detected = FALSE
    /\ root_to_export = NoRoot
    /\ last_active_root = NoRoot
    /\ auto_export_enabled = FALSE
    /\ recent_export = FALSE
    /\ timers_pending = 0
    /\ export_calls = 0

InitBones ==
    /\ ArmatureInput(arm)
    /\ bones_pc = "start"
    /\ pmx_bones = <<>>
    /\ bone_name_table = <<>>
    /\ r = <<>>
    /\ SkinIdle
    /\ VertexIdle
    /\ UVIdle
    /\ MorphIdle
    /\ MatIdle
    /\ ExecIdle
    /\ IKIdle
    /\ LimIdle
    /\ TexIdle
    /\ TablesIdle
    /\ BoneIdsIdle
    /\ TrackerIdle

NextBones == ExportBones

SpecBones == InitBones /\ [][NextBones]_vars

InitSkin ==
    /\ \E gs \in RawGroups : \E ws \in WeightSeqs(Len(gs)) :
          v_raw = [i \in DOMAIN gs |-> [group |-> gs[i], weight |-> ws[i]]]
    /\ v_groups = <<>>
    /\ v_sdef = <<>>
    /\ pv_weight = [type |-> "none"]
    /\ skin_pc = "raw"
    /\ BonesIdle
    /\ VertexIdle
    /\ UVIdle
    /\ MorphIdle
    /\ MatIdle
    /\ ExecIdle
    /\ IKIdle
    /\ LimIdle
    /\ TexIdle
    /\ TablesIdle
    /\ BoneIdsIdle
    /\ TrackerIdle

NextSkin == DoLoadVertex \/ ExportVertexWeight

SpecSkin == InitSkin /\ [][NextSkin]_vars

\* base_vertices after lines 1196-1207: one _Vertex per mesh vertex, each with
\* its own add_uvs list and no uv, normal or averaging lists yet.
InitVertex ==
    /\ cfg \in [splitting : BOOLEAN, colors : BOOLEAN, faces : 1..MaxFaces, layers : 0..MaxLayers]
    /\ base_vertices = [s \in SourceVerts(cfg.faces) |->
                          <<[src |-> s, uv |-> None, normal |-> None,
                             add_uvs |-> s + 1, lists |-> 0]>>]
    /\ add_uvs_heap = [i \in 1..(cfg.faces + 2) |-> <<None, None, None, None>>]
    /\ avg_heap = <<>>
    /\ face_seq = <<>>
    /\ rip_vertices_map = <<>>
    /\ corner_log = <<>>
    /\ rip_log = <<>>
    /\ vertex_pc = [phase |-> "faces", face |-> 1, corner |-> 1, layer |-> 0]
    /\ BonesIdle
    /\ SkinIdle
    /\ UVIdle
    /\ MorphIdle
    /\ MatIdle
    /\ ExecIdle
    /\ IKIdle
    /\ LimIdle
    /\ TexIdle
    /\ TablesIdle
    /\ BoneIdsIdle
    /\ TrackerIdle

NextVertex == ConvertCornerSplitting \/ ConvertCornerAveraging \/ ConvertCornerAddUV

SpecVertex == InitVertex /\ [][NextVertex]_vars

\* execute: self.__add_uv_count is 0 after construction; an export without
\* meshes goes straight to pmx.save.
InitUV ==
    /\ uv_input \in UNION {[1..n -> MeshInputs] : n \in 0..MaxMeshes}
    /\ uv_meshes = <<>>
    /\ add_uv_count = 0
    /\ uv_exported = <<>>
    /\ uv_saved_count = -1
    /\ uv_pc = IF uv_input = <<>> THEN "save" ELSE "load"
    /\ BonesIdle
    /\ SkinIdle
    /\ VertexIdle
    /\ MorphIdle
    /\ MatIdle
    /\ ExecIdle
    /\ IKIdle
    /\ LimIdle
    /\ TexIdle
    /\ TablesIdle
    /\ BoneIdsIdle
    /\ TrackerIdle

NextUV == LoadMeshUV \/ ExportMeshUV \/ SaveUV

SpecUV == InitUV /\ [][NextUV]_vars

InitMorph ==
    /\ m_input \in MorphInputs
    /\ morphs = <<>>
    /\ morph_warnings = <<>>
    /\ display = <<>>
    /\ morph_pc = "morphs"
    /\ BonesIdle
    /\ SkinIdle
    /\ VertexIdle
    /\ UVIdle
    /\ MatIdle
    /\ ExecIdle
    /\ IKIdle
    /\ LimIdle
    /\ TexIdle
    /\ TablesIdle
    /\ BoneIdsIdle
    /\ TrackerIdle

NextMorph == ExportBaseMorphs \/ ExportGroupMorphs \/ SortMorphs \/ ExportDisplayItems

SpecMorph == InitMorph /\ [][NextMorph]_vars

InitMaterials ==
    /\ mat_scene \in MatScenes
    /\ mat_exported = <<>>
    /\ mat_pc = "start"
    /\ BonesIdle
    /\ SkinIdle
    /\ VertexIdle
    /\ UVIdle
    /\ MorphIdle
    /\ ExecIdle
    /\ IKIdle
    /\ LimIdle
    /\ TexIdle
    /\ TablesIdle
    /\ BoneIdsIdle
    /\ TrackerIdle

NextMaterials == ExportMaterials

SpecMaterials == InitMaterials /\ [][NextMaterials]_vars

InitExecute ==
    /\ exec_args \in [root : BOOLEAN, translate_in_presets : BOOLEAN,
                      sort_materials : BOOLEAN, copy_textures : BOOLEAN]
    /\ exec_done = <<>>
    /\ save_calls = 0
    /\ exec_pc = "run"
    /\ BonesIdle
    /\ SkinIdle
    /\ VertexIdle
    /\ UVIdle
    /\ MorphIdle
    /\ MatIdle
    /\ IKIdle
    /\ LimIdle
    /\ TexIdle
    /\ TablesIdle
    /\ BoneIdsIdle
    /\ TrackerIdle

NextExecute == RunStage \/ RaiseInStage

SpecExecute == InitExecute /\ [][NextExecute]_vars

InitIK ==
    /\ \E q \in SeqsUpTo(IKConstraints, MaxConstraints) :
       \E o \in Owners(q) :
       \E proxyB, shadowC \in BOOLEAN :
       \E customC \in {NoName, "A"} :
       \E f \in {1, 5} :
          ik_arm = [bones |-> IKPoseBones(q, o, proxyB, shadowC, customC),
                    ik_loop_factor |-> f]
    /\ ik_bones = [i \in DOMAIN IKBoneMap(ik_arm.bones) |-> NotIK]
    /\ ik_log = <<>>
    /\ ik_pc = "run"
    /\ BonesIdle
    /\ SkinIdle
    /\ VertexIdle
    /\ UVIdle
    /\ MorphIdle
    /\ MatIdle
    /\ ExecIdle
    /\ LimIdle
    /\ TexIdle
    /\ TablesIdle
    /\ BoneIdsIdle
    /\ TrackerIdle

NextIK == IKConstraint \/ IKReturn

SpecIK == InitIK /\ [][NextIK]_vars

InitLimits ==
    /\ \E policy \in IKPolicies :
       \E ce, oe \in BOOLEAN :
       \E cu, lk, ou, nu \in AxisFlags :
          lim_in = [policy |-> policy,
                    custom |-> CustomLimits(ce, cu),
                    lock_ik |-> lk,
                    override |-> OverrideLimits(oe, ou),
                    native |-> NativeLimits(nu)]
    /\ lim_axes = <<>>
    /\ lim_link = NoLimits
    /\ lim_pc = "axes"
    /\ BonesIdle
    /\ SkinIdle
    /\ VertexIdle
    /\ UVIdle
    /\ MorphIdle
    /\ MatIdle
    /\ ExecIdle
    /\ IKIdle
    /\ TexIdle
    /\ TablesIdle
    /\ BoneIdsIdle
    /\ TrackerIdle

NextLimits == LimitAxes \/ EmitLimits

SpecLimits == InitLimits /\ [][NextLimits]_vars

InitTexture ==
    /\ tex_env \in [platform : {"posix", "nt"}, files : SUBSET {"/t/a.png", "/t/b.png"}]
    /\ textures = <<>>
    /\ tex_calls = <<>>
    /\ BonesIdle
    /\ SkinIdle
    /\ VertexIdle
    /\ UVIdle
    /\ MorphIdle
    /\ MatIdle
    /\ ExecIdle
    /\ IKIdle
    /\ LimIdle
    /\ TablesIdle
    /\ BoneIdsIdle
    /\ TrackerIdle

NextTexture == ExportTexture

SpecTexture == InitTexture /\ [][NextTexture]_vars

\* Two meshes (in the order of execute, line 1452) share up to MaxModelFaces
\* faces; the faces vary with a fixed armature, or the armature varies with
\* fixed faces.
FixedArmature ==
    <<[name |-> "A", bone_id |-> 1, shadow |-> FALSE, parent |-> NoBone,
       connected |-> FALSE, is_tip |-> FALSE, display_connection_type |-> "OFFSET",
       display_connection_bone_id |-> -1, additional_transform_bone |-> NoName],
      [name |-> "B", bone_id |-> 0, shadow |-> FALSE, parent |-> NoBone,
       connected |-> FALSE, is_tip |-> FALSE, display_connection_type |-> "OFFSET",
       display_connection_bone_id |-> -1, additional_transform_bone |-> NoName]>>

FixedMeshes ==
    <<[slots |-> <<"M1", "M2">>, faces |-> <<[slot |-> 1, co |-> 3], [slot |-> 2, co |-> 0]>>],
      [slots |-> <<"M2", "M1">>, faces |-> <<[slot |-> 1, co |-> 0]>>]>>

InitTables ==
    /\ \/ /\ arm = FixedArmature
          /\ \E q \in SeqsUpTo(MeshFaces, MaxModelFaces), k \in 0..MaxModelFaces,
                s1, s2 \in [MeshSlots -> Materials], srt \in BOOLEAN :
                /\ k <= Len(q)
                /\ tb_in = [meshes |-> <<[slots |-> s1, faces |-> SubSeq(q, 1, k)],
                                         [slots |-> s2, faces |-> SubSeq(q, k + 1, Len(q))]>>,
                            sort_materials |-> srt,
                            bone_morph |-> BoneMorphData,
                            material_morph |-> MaterialMorphData]
       \/ /\ \E ns \in InjSeqs(NamesUpTo(MaxBones), MaxBones) : arm \in ArmaturesOf(ns, FlatProps)
          /\ tb_in = [meshes |-> FixedMeshes, sort_materials |-> TRUE,
                      bone_morph |-> BoneMorphData, material_morph |-> MaterialMorphData]
    /\ bones_pc = "start"
    /\ pmx_bones = <<>>
    /\ bone_name_table = <<>>
    /\ r = <<>>
    /\ model_vertices = <<>>
    /\ model_faces = <<>>
    /\ model_materials = <<>>
    /\ material_name_table = <<>>
    /\ bone_offsets = <<>>
    /\ material_offsets = <<>>
    /\ material_warnings = {}
    /\ tb_pc = "meshes"
    /\ SkinIdle
    /\ VertexIdle
    /\ UVIdle
    /\ MorphIdle
    /\ MatIdle
    /\ ExecIdle
    /\ IKIdle
    /\ LimIdle
    /\ TexIdle
    /\ BoneIdsIdle
    /\ TrackerIdle

NextTables ==
    \/ ExportBones
    \/ ExportMeshes
    \/ SortMaterials
    \/ ExportBoneMorphs
    \/ ExportMaterialMorphs

SpecTables == InitTables /\ [][NextTables]_vars

\* An armature of three bones with any IDs: either without hierarchy and
\* shadow bones and with any references, or with hierarchy and shadow bones
\* and one bone morph entry.
InitBoneIds ==
    /\ \E ids \in [DOMAIN IdNames -> IdValues] :
          \/ \E at, dc \in [DOMAIN IdNames -> IdValues], m \in IdValues :
                /\ at[2] = -1 /\ at[3] = -1 /\ dc[1] = -1 /\ dc[3] = -1
                /\ id_bones = [i \in DOMAIN IdNames |->
                                 [name |-> IdNames[i], bone_id |-> ids[i], shadow |-> FALSE,
                                  parent |-> NoBone,
                                  additional_transform_bone_id |-> at[i],
                                  display_connection_bone_id |-> dc[i]]]
                /\ id_morph = <<m>>
          \/ \E sh \in [DOMAIN IdNames -> BOOLEAN], par \in IdParents :
                /\ id_bones = [i \in DOMAIN IdNames |->
                                 [name |-> IdNames[i], bone_id |-> ids[i], shadow |-> sh[i],
                                  parent |-> par[IdNames[i]],
                                  additional_transform_bone_id |-> -1,
                                  display_connection_bone_id |-> -1]]
                /\ id_morph = <<0>>
    /\ id_call = NoCall
    /\ BonesIdle
    /\ SkinIdle
    /\ VertexIdle
    /\ UVIdle
    /\ MorphIdle
    /\ MatIdle
    /\ ExecIdle
    /\ IKIdle
    /\ LimIdle
    /\ TexIdle
    /\ TablesIdle
    /\ TrackerIdle

NextBoneIds == SafeChangeBoneId \/ RealignBoneIds

SpecBoneIds == InitBoneIds /\ [][NextBoneIds]_vars

\* The module after register() (lines 485-499) in a scene with the model.
InitTracker ==
    /\ ae_scene \in [root_exists : {TRUE}, pos : {1}, root_auto : BOOLEAN, moving : {FALSE}]
    /\ object_states = NoState
    /\ initial_states = NoState
    /\ changes_detected = FALSE
    /\ root_to_export = NoRoot
    /\ last_active_root = NoRoot
    /\ auto_export_enabled = FALSE
    /\ recent_export = TRUE
    /\ timers_pending = 0
    /\ export_calls = 0
    /\ BonesIdle
    /\ SkinIdle
    /\ VertexIdle
    /\ UVIdle
    /\ MorphIdle
    /\ MatIdle
    /\ ExecIdle
    /\ IKIdle
    /\ LimIdle
    /\ TexIdle
    /\ TablesIdle
    /\ BoneIdsIdle

NextTracker ==
    \/ TrackChanges
    \/ ForcedCheck
    \/ StabilityTimeout
    \/ TimePasses
    \/ DeleteRoot
    \/ ToggleAutoExport

SpecTracker == InitTracker /\ [][NextTracker]_vars

-----------------------------------------------------------------------------
(* Properties of the bone table *)

NonShadow(a) == {i \in DOMAIN a : ~a[i].shadow}

\* C1: after __exportBones completes the bone table is never empty: with no
\* non-shadow pose bone it is exactly the one placeholder root bone, and with
\* k >= 1 non-shadow pose bones it holds exactly k records, none of them the
\* placeholder.
C1_BoneTableNeverEmpty ==
    bones_pc = "done" =>
        LET k == Cardinality(NonShadow(arm)) IN
        /\ Len(pmx_bones) >= 1
        /\ k = 0 => pmx_bones = <<RootPlaceholder>>
        /\ k >= 1 => /\ Len(pmx_bones) = k
                     /\ \A i \in DOMAIN pmx_bones : pmx_bones[i].name # RootPlaceholder.name
                     /\ {pmx_bones[i].name : i \in DOMAIN pmx_bones}
                          = {arm[i].name : i \in NonShadow(arm)}

\* An armature made of shadow bones only was exported.
C1_Witness ==
    /\ bones_pc = "done"
    /\ Len(arm) >= 1
    /\ NonShadow(arm) = {}
    /\ Len(pmx_bones) = 1

\* The pose bone of a record, and the position of a name in name order.
PoseBoneOf(rec) == BoneByName(arm, rec.name)
NameOrder(n) == IndexOfName(NameList, n)

\* C16: the bone table lists exactly the non-shadow bones, in ascending order
\* key with the bones without a key (negative bone_id) after all the others,
\* and bones of equal key (all bones without a key included) in name order.
C16_BoneTableOrder ==
    (bones_pc = "done" /\ NonShadow(arm) # {}) =>
        /\ Len(pmx_bones) = Cardinality(NonShadow(arm))
        /\ {pmx_bones[i].name : i \in DOMAIN pmx_bones} = {arm[i].name : i \in NonShadow(arm)}
        /\ \A i, j \in DOMAIN pmx_bones :
              i < j =>
                 LET a == PoseBoneOf(pmx_bones[i])
                     b == PoseBoneOf(pmx_bones[j])
                 IN \/ SortKey(a) < SortKey(b)
                    \/ SortKey(a) = SortKey(b) /\ NameOrder(a.name) < NameOrder(b.name)

\* The table index (0 based) of the record created for the bone named n, or
\* -1 when the table holds no such record.
TableIndexOf(n) ==
    IF \E i \in DOMAIN pmx_bones : pmx_bones[i].name = n
    THEN (CHOOSE i \in DOMAIN pmx_bones : pmx_bones[i].name = n) - 1
    ELSE -1

\* C17: the linking pass completes for every hierarchy and bone order (a
\* parent that is an excluded shadow bone included), and after it each record's
\* parent is none or the table index of the record of the bone's parent, and
\* its additional transform source is -1 or the table index of the bone with
\* the referenced name.
C17_LinksResolve ==
    bones_pc \in {"done", "error_link"} =>
        /\ bones_pc = "done"
        /\ NonShadow(arm) # {} =>
              \A i \in DOMAIN pmx_bones :
                 LET p == PoseBoneOf(pmx_bones[i]) IN
                 /\ pmx_bones[i].parent =
                       (IF p.parent = NoBone THEN NoParent ELSE TableIndexOf(p.parent))
                 /\ p.parent # NoBone => pmx_bones[i].parent \in 0..(Len(pmx_bones) - 1)
                 /\ pmx_bones[i].additionalTransform = TableIndexOf(p.additional_transform_bone)

\* C18: after __exportBones every record whose display connection is of bone
\* type holds -1 or a valid table index, the position of the record created
\* for the designated target (the bone whose order key is
\* display_connection_bone_id), whatever the order keys are: with gaps, unset,
\* or with a shadow bone as the target.
C18_DisplayConnectionIsIndex ==
    (bones_pc = "done" /\ NonShadow(arm) # {}) =>
        \A i \in DOMAIN pmx_bones :
           LET p == PoseBoneOf(pmx_bones[i])
               dc == pmx_bones[i].displayConnection
           IN p.display_connection_type = "BONE" =>
                 \/ dc = -1
                 \/ /\ dc \in 0..(Len(pmx_bones) - 1)
                    /\ PoseBoneOf(pmx_bones[dc + 1]).bone_id = p.display_connection_bone_id

\* The bone is rigidly connected to a parent that is a tip bone.
LockedToTip(p) ==
    /\ p.parent # NoBone
    /\ p.connected
    /\ BoneByName(arm, p.parent).is_tip

\* C19: every bone rigidly connected to a parent that is a tip bone is
\* exported at the exported location of its parent, wherever parent and child
\* stand in the bone order (also with the child before its parent).
C19_TipChildAtParentLocation ==
    (bones_pc \in {"done", "error_fix", "error_link"} /\ NonShadow(arm) # {}) =>
        /\ bones_pc # "error_fix"
        /\ bones_pc = "done" =>
              \A i \in DOMAIN pmx_bones :
                 LET p == PoseBoneOf(pmx_bones[i]) IN
                 LockedToTip(p) =>
                    /\ TableIndexOf(p.parent) >= 0
                    /\ pmx_bones[i].location = pmx_bones[TableIndexOf(p.parent) + 1].location

-----------------------------------------------------------------------------
(* Properties of the skin weight encoding *)

\* The influence list handed to the encoder.
Influences == LoadGroups(v_raw)

\* Position (1..4) of influence i among the influences ordered by descending
\* weight, ties in their given order.
RankOf(g, i) ==
    1 + Cardinality({j \in DOMAIN g : g[j][2] > g[i][2] \/ (g[j][2] = g[i][2] /\ j < i)})

\* C2: the encoding chosen for an influence list equals the reference:
\* 0 influences -> BDEF1 with bone 0; 1 -> BDEF1 with that bone; 2 -> BDEF2
\* (SDEF if a correction triple is present) in which the first influence's
\* bone carries w1/(w1+w2) (stored as such when the bones are listed in the
\* given order, as its complement on the second place when SDEF lists them
\* exchanged); 3 or 4 -> BDEF4 with the influences in their given order; more
\* than 4 -> BDEF4 with the 4 highest weights, ties in their given order;
\* unused BDEF4 slots hold bone 0 / weight 0.
C2_EncodingMatchesReference ==
    skin_pc = "exported" =>
        LET g == Influences
            n == Len(g)
            w == pv_weight
        IN CASE n = 0 -> w.type = "BDEF1" /\ w.bones = <<0>>
             [] n = 1 -> w.type = "BDEF1" /\ w.bones = <<g[1][1]>>
             [] n = 2 ->
                  LET ref == Frac(g[1][2], g[1][2] + g[2][2]) IN
                  IF v_sdef = <<>>
                  THEN /\ w.type = "BDEF2"
                       /\ w.bones = <<g[1][1], g[2][1]>>
                       /\ Len(w.weights) = 1 /\ FracEq(w.weights[1], ref)
                  ELSE /\ w.type = "SDEF"
                       /\ \/ w.bones = <<g[1][1], g[2][1]>> /\ FracEq(w.weights.weight, ref)
                          \/ w.bones = <<g[2][1], g[1][1]>>
                               /\ FracEq(OneMinus(w.weights.weight), ref)
             [] OTHER ->
                  /\ w.type = "BDEF4"
                  /\ Len(w.bones) = 4 /\ Len(w.weights) = 4
                  /\ \A i \in DOMAIN g :
                        LET k == IF n > 4 THEN RankOf(g, i) ELSE i IN
                        k <= 4 => w.bones[k] = g[i][1] /\ w.weights[k].num = g[i][2]
                  /\ \A k \in 1..4 : k > n => w.bones[k] = 0 /\ w.weights[k].num = 0

\* More than 4 influences were encoded, two of them with equal weight competing
\* for the last slot and a heavier one listed after them.
C2_Witness ==
    /\ skin_pc = "exported"
    /\ Len(Influences) > 4
    /\ \E i, j \in DOMAIN Influences :
          /\ i < j
          /\ Influences[i][2] = Influences[j][2]
          /\ RankOf(Influences, i) <= 4
          /\ RankOf(Influences, j) > 4
          /\ \E m \in DOMAIN Influences : m > i /\ Influences[m][2] > Influences[i][2]

\* C3: with the influences the mesh loader produces (weight > 0, exported
\* bone), the renormalising division never has a zero divisor, the 2-bone
\* weight lies in [0,1] (it and its complement sum to 1) and the four BDEF4
\* slot weights sum to 1.
C3_WeightsSumToOne ==
    /\ skin_pc # "error"
    /\ skin_pc = "exported" =>
          CASE pv_weight.type = "BDEF2" ->
                 LET f == pv_weight.weights[1] IN
                 f.den > 0 /\ 0 <= f.num /\ f.num <= f.den
            [] pv_weight.type = "SDEF" ->
                 LET f == pv_weight.weights.weight IN
                 f.den > 0 /\ 0 <= f.num /\ f.num <= f.den
            [] pv_weight.type = "BDEF4" ->
                 /\ \A k \in 1..4 : pv_weight.weights[k].den > 0
                 /\ \A k \in 1..4 : pv_weight.weights[k].den = pv_weight.weights[1].den
                 /\ SumSeq([k \in 1..4 |-> pv_weight.weights[k].num]) = pv_weight.weights[1].den
            [] OTHER -> TRUE

\* A vertex whose raw groups include zero weights and a group of no bone was
\* encoded as BDEF4 after the loader dropped those.
C3_Witness ==
    /\ skin_pc = "exported"
    /\ pv_weight.type = "BDEF4"
    /\ \E i \in DOMAIN v_raw : v_raw[i].weight = 0
    /\ \E i \in DOMAIN v_raw : v_raw[i].group \notin DOMAIN vg_to_bone

\* C4: an SDEF encoding lists its two bones in ascending index order, and when
\* the bones were exchanged for that, the weight is 1 - the original weight
\* and r0 and r1 are exchanged as well.
C4_SdefSwapExchangesR0R1 ==
    (skin_pc = "exported" /\ pv_weight.type = "SDEF") =>
        LET g == Influences
            swapped == g[1][1] > g[2][1]
            w == Frac(g[1][2], g[1][2] + g[2][2])
        IN /\ pv_weight.bones[1] <= pv_weight.bones[2]
           /\ pv_weight.weights.c = v_sdef[1]
           /\ IF swapped
              THEN /\ FracEq(pv_weight.weights.weight, OneMinus(w))
                   /\ pv_weight.weights.r0 = v_sdef[3]
                   /\ pv_weight.weights.r1 = v_sdef[2]
              ELSE /\ FracEq(pv_weight.weights.weight, w)
                   /\ pv_weight.weights.r0 = v_sdef[2]
                   /\ pv_weight.weights.r1 = v_sdef[3]

-----------------------------------------------------------------------------
(* Properties of the vertex consolidation *)

Dist2(a, b) == Len2(VecSub(a, b))
UVNear(a, b) == Dist2(a, b) < UVEps * UVEps
NormalNear(a, b) == Dist2(a, b) < NormalEps * NormalEps
ColorNear(a, b) == \A k \in 1..4 : Abs(a[k] - b[k]) < ColorEps

\* The corners (positions in corner_log) of a source vertex processed before j.
Earlier(j) == {k \in 1..(j - 1) : corner_log[k].src = corner_log[j].src}

\* The corner for which the IndexedVertex i of the source vertex of corner j
\* was first used: it gave the vertex its UV, normal and colour.
Creator(j, i) ==
    CHOOSE k \in DOMAIN corner_log :
        /\ corner_log[k].src = corner_log[j].src /\ corner_log[k].idx = i
        /\ \A m \in 1..(k - 1) :
              ~(corner_log[m].src = corner_log[j].src /\ corner_log[m].idx = i)

CornersCompatible(a, b) ==
    /\ UVNear(a.uv, b.uv)
    /\ NormalNear(a.normal, b.normal)
    /\ ColorNear(a.color, b.color)

\* C5: in splitting mode a corner is mapped to an already created IndexedVertex
\* of its source vertex iff one of them was given a UV within 0.001, a normal
\* within 0.01 and a colour within 0.01 of the corner's values, and it is
\* mapped to such a vertex; otherwise exactly one new vertex is created.
\* Consequently corners with identical UV, normal and colour share one
\* IndexedVertex.
C5_SplitReuseIffCompatible ==
    cfg.splitting =>
        /\ \A j \in DOMAIN corner_log :
              LET e == corner_log[j]
                  existing == {corner_log[k].idx : k \in Earlier(j)}
                  compatible == {i \in existing : CornersCompatible(corner_log[Creator(j, i)], e)}
              IN /\ (e.idx \in existing) <=> (compatible # {})
                 /\ e.idx \in existing => e.idx \in compatible
                 /\ e.idx \notin existing => e.idx = Cardinality(existing) + 1
        /\ \A j, k \in DOMAIN corner_log :
              (/\ corner_log[j].src = corner_log[k].src
               /\ corner_log[j].uv = corner_log[k].uv
               /\ corner_log[j].normal = corner_log[k].normal
               /\ corner_log[j].color = corner_log[k].color)
              => corner_log[j].idx = corner_log[k].idx

\* The value a vertex holds in an add_uvs slot.
SlotOf(v, slot) == add_uvs_heap[v.add_uvs][slot]

SlotsDiffer(a, b) ==
    IF a = None \/ b = None THEN a # b
    ELSE ~(UVNear(a[1], b[1]) /\ UVNear(a[2], b[2]))

ColorSlotsDiffer(a, b) ==
    IF a = None \/ b = None THEN a # b
    ELSE \E j \in 1..2, k \in 1..2 : Abs(a[j][k] - b[j][k]) >= ColorEps

ColorSlot == 2

\* C6: at the end of the consolidation of a mesh two distinct IndexedVertices
\* of the same source vertex differ beyond the thresholds in UV, in the normal
\* (splitting mode), in an auxiliary UV slot or in the colour.
C6_VerticesOfASourceDiffer ==
    vertex_pc.phase = "done" =>
        \A s \in DOMAIN base_vertices :
            \A i, j \in DOMAIN base_vertices[s] :
                i < j =>
                    LET a == base_vertices[s][i]
                        b == base_vertices[s][j]
                    IN \/ ~UVNear(a.uv, b.uv)
                       \/ cfg.splitting /\ ~NormalNear(a.normal, b.normal)
                       \/ \E slot \in (1..4) \ (IF cfg.colors THEN {ColorSlot} ELSE {}) :
                             SlotsDiffer(SlotOf(a, slot), SlotOf(b, slot))
                       \/ cfg.colors /\ ColorSlotsDiffer(SlotOf(a, ColorSlot), SlotOf(b, ColorSlot))

TotalVertices == SumSeq([i \in 1..(cfg.faces + 2) |-> Len(base_vertices[i - 1])])

Referenced == {face_seq[f][j] : f \in DOMAIN face_seq, j \in 1..3}

\* The two corners (positions in corner_log) of the shared vertices 0 and 2 of
\* the quad: faces <<0,1,2>> and <<0,2,3>>.
QuadCorners(s) == IF s = 0 THEN <<1, 4>> ELSE <<3, 5>>

Seam(s) ==
    Dist2(corner_log[QuadCorners(s)[1]].uv, corner_log[QuadCorners(s)[2]].uv) > UVEps * UVEps

Smooth(s) ==
    LET a == corner_log[QuadCorners(s)[1]]
        b == corner_log[QuadCorners(s)[2]]
    IN /\ UVNear(a.uv, b.uv)
       /\ cfg.splitting => NormalNear(a.normal, b.normal) /\ ColorNear(a.color, b.color)

SameDirection(a, b) ==
    /\ a[1] * b[2] - a[2] * b[1] = 0
    /\ a[1] * b[1] + a[2] * b[2] > 0

WeightedNormalSum(s) ==
    LET a == corner_log[QuadCorners(s)[1]]
        b == corner_log[QuadCorners(s)[2]]
    IN <<a.w * a.normal[1] + b.w * b.normal[1], a.w * a.normal[2] + b.w * b.normal[2]>>

\* C7: a quad of 2 triangles over 4 source vertices with exactly one UV seam
\* (one shared vertex whose two corners differ by more than 0.001 in UV, the
\* other shared vertex without discontinuity) consolidates to exactly 5
\* IndexedVertices referenced by the 2 triangles, in splitting and in
\* non-splitting mode; in non-splitting mode the normal of the vertex still
\* shared by two corners is the (angle x area) weighted, renormalised average
\* of the normals of these two corners.
C7_QuadWithOneSeam ==
    (vertex_pc.phase = "done" /\ cfg.faces = 2 /\ cfg.layers = 0) =>
        \A seam \in {0, 2} :
            LET shared == 2 - seam IN
            (Seam(seam) /\ Smooth(shared)) =>
                /\ TotalVertices = 5
                /\ Len(face_seq) = 2
                /\ Cardinality(Referenced) = 5
                /\ Len(base_vertices[seam]) = 2 /\ Len(base_vertices[shared]) = 1
                /\ ~cfg.splitting =>
                      SameDirection(base_vertices[shared][1].normal, WeightedNormalSum(shared))

\* A quad in non-splitting mode with a UV seam on vertex 2 and two different
\* normals on the corners of vertex 0.
C7_Witness ==
    /\ vertex_pc.phase = "done" /\ cfg.faces = 2 /\ cfg.layers = 0
    /\ ~cfg.splitting
    /\ Seam(2) /\ Smooth(0)
    /\ corner_log[1].normal = N0 /\ corner_log[4].normal = NFar
    /\ TotalVertices = 5

NoDiscontinuity ==
    \A j, k \in DOMAIN corner_log :
        corner_log[j].src = corner_log[k].src =>
            /\ corner_log[j].uv = corner_log[k].uv
            /\ corner_log[j].normal = corner_log[k].normal
            /\ corner_log[j].color = corner_log[k].color

\* C8: when every source vertex has the same UV, normal and colour on all its
\* corners, the consolidation yields exactly one IndexedVertex per source
\* vertex in splitting mode and in non-splitting mode alike: 4 vertices for
\* two triangles sharing an edge.
C8_NoDiscontinuityNoSplit ==
    (vertex_pc.phase = "done" /\ cfg.layers = 0 /\ NoDiscontinuity) =>
        /\ \A s \in DOMAIN base_vertices : Len(base_vertices[s]) = 1
        /\ TotalVertices = cfg.faces + 2
        /\ cfg.faces = 2 => TotalVertices = 4

\* Two triangles sharing an edge, without vertex colours, in splitting mode:
\* the shared vertices carry a non default value on both corners.
C8_Witness ==
    /\ vertex_pc.phase = "done" /\ cfg.layers = 0 /\ cfg.faces = 2
    /\ cfg.splitting /\ ~cfg.colors
    /\ NoDiscontinuity
    /\ corner_log[1].uv = UVFar /\ corner_log[3].normal = NFar
    /\ TotalVertices = 4

-----------------------------------------------------------------------------
(* Properties of the additional UV layers *)

AddUVNear(a, b) == UVNear(a[1], b[1]) /\ UVNear(a[2], b[2])

\* One call of __convertAddUV seen from outside: the corner's vertex keeps its
\* place when its channel is empty, an existing rip within 0.001 in UV and in
\* ZW is reused, otherwise one clone is appended that differs from the
\* original in that channel only.
C9_Step ==
    (vertex_pc.phase = "layers" /\ rip_log' # rip_log) =>
        LET f == vertex_pc.face
            j == vertex_pc.corner
            x == face_seq[f][j]
            e == rip_log'[Len(rip_log')]
            vert == VertexAt(base_vertices, x)
            old == add_uvs_heap[vert.add_uvs][e.slot]
            near == {y \in Range(RipsOf(rip_vertices_map, x)) :
                        AddUVNear(SlotOf(VertexAt(base_vertices, y), e.slot), <<e.uv, e.zw>>)}
            res == face_seq'[f][j]
        IN IF old = None
           THEN /\ res = x
                /\ base_vertices' = base_vertices
                /\ add_uvs_heap'[vert.add_uvs][e.slot] = <<e.uv, e.zw>>
           ELSE IF near # {}
           THEN /\ res \in near
                /\ base_vertices' = base_vertices
                /\ add_uvs_heap' = add_uvs_heap
           ELSE /\ Len(base_vertices'[x[1]]) = Len(base_vertices[x[1]]) + 1
                /\ \A s \in DOMAIN base_vertices :
                      \A i \in DOMAIN base_vertices[s] : base_vertices'[s][i] = base_vertices[s][i]
                /\ \A s \in DOMAIN base_vertices \ {x[1]} :
                      Len(base_vertices'[s]) = Len(base_vertices[s])
                /\ res = <<x[1], Len(base_vertices[x[1]]) + 1>>
                /\ LET n == VertexAt(base_vertices', res)
                   IN /\ n.uv = vert.uv /\ n.normal = vert.normal /\ n.src = vert.src
                      /\ add_uvs_heap'[n.add_uvs][e.slot] = <<e.uv, e.zw>>
                      /\ \A k \in (1..4) \ {e.slot} :
                            add_uvs_heap'[n.add_uvs][k] = add_uvs_heap[vert.add_uvs][k]
                      /\ add_uvs_heap'[vert.add_uvs] = add_uvs_heap[vert.add_uvs]

\* The calls of __convertAddUV for layer l (positions in rip_log).
LayerCalls(l) == {k \in DOMAIN rip_log : rip_log[k].layer = l}

AddUVValue(k) == <<rip_log[k].uv, rip_log[k].zw>>

\* The vertices the faces refer to after layer l, less those before it.
AddedByLayer(l) ==
    Cardinality({rip_log[k].res : k \in LayerCalls(l)})
        - Cardinality({rip_log[k].vert : k \in LayerCalls(l)})

\* Corner d is the only corner of layer l with another value, 0.002 or more
\* away in UV or ZW, and its IndexedVertex has a second corner.
OneDiffers(l, d) ==
    /\ \A a, b \in LayerCalls(l) \ {d} : AddUVValue(a) = AddUVValue(b)
    /\ \E o \in LayerCalls(l) \ {d} :
          /\ ~AddUVNear(AddUVValue(d), AddUVValue(o))
          /\ rip_log[o].vert = rip_log[d].vert

C9_Layers ==
    vertex_pc.phase = "done" =>
        \A l \in 0..(cfg.layers - 1) :
            /\ (\A a, b \in LayerCalls(l) : AddUVValue(a) = AddUVValue(b)) => AddedByLayer(l) = 0
            /\ \A d \in LayerCalls(l) : OneDiffers(l, d) => AddedByLayer(l) = 1

-----------------------------------------------------------------------------
(* Properties of the auxiliary UV channel budget *)

\* Positions in mesh.uv_layers of the layers that ask for an auxiliary
\* channel: not the primary layer, not a "_" layer and, with vertex
\* colours, not the "UV2" layer that stands for them.
Wanted(mesh) ==
    {i \in 2..Len(mesh.uv_layers) :
        /\ mesh.uv_layers[i][1] = "UV"
        /\ ~(mesh.vertex_colors /\ mesh.uv_layers[i] = UV2)}

ColorChannels(mesh) == IF mesh.vertex_colors THEN 1 ELSE 0

Demand(mesh) == Cardinality(Wanted(mesh)) + ColorChannels(mesh)

\* The wanted layers with fewer than n wanted layers before them.
LowestWanted(mesh, n) ==
    {i \in Wanted(mesh) : Cardinality({j \in Wanted(mesh) : j < i}) < n}

\* C10: for any UV layers and vertex colours over any sequence of meshes, the
\* auxiliary channel count never exceeds 4 and the count handed to the
\* serializer covers the auxiliary UV entries of every exported vertex; when
\* the demand of a mesh exceeds 4 a warning is given, the vertex colour
\* channel is kept and the remaining channels go to the lowest-indexed layers.
C10_ChannelBudget ==
    /\ add_uv_count <= 4
    /\ uv_pc # "error"
    /\ uv_pc = "saved" =>
          /\ uv_saved_count <= 4
          /\ Len(uv_exported) = Len(uv_input)
          /\ \A k \in DOMAIN uv_exported : Len(uv_exported[k]) <= uv_saved_count
    /\ \A k \in DOMAIN uv_meshes :
          LET mesh == uv_input[k]
              kept == LowestWanted(mesh, 4 - ColorChannels(mesh))
          IN /\ uv_meshes[k].warned <=> Demand(mesh) > 4
             /\ Demand(mesh) > 4 =>
                   /\ Range(uv_meshes[k].bl_add_uvs) = {mesh.uv_layers[i] : i \in kept}
                   /\ Len(uv_meshes[k].bl_add_uvs) = 4 - ColorChannels(mesh)
                   /\ mesh.color_data => uv_meshes[k].add_uvs[ColorSlot] = <<"color">>
                   /\ {uv_meshes[k].add_uvs[i] : i \in 1..4} \ {<<"color">>, None}
                         = {<<"layer", mesh.uv_layers[i]>> : i \in kept}

\* An export of two meshes, both asking for more than 4 channels, one with
\* vertex colours and one without, after pmx.save.
C10_Witness ==
    /\ uv_pc = "saved"
    /\ Len(uv_input) = 2
    /\ uv_input[1].color_data /\ Demand(uv_input[1]) > 4
    /\ ~uv_input[2].vertex_colors /\ Demand(uv_input[2]) > 4
    /\ Len(uv_exported[1]) = 4 /\ Len(uv_exported[2]) = 4
    /\ uv_saved_count = 4

-----------------------------------------------------------------------------
(* Properties of the morph tables *)

ExportedKeys == {morphs[j].key : j \in DOMAIN morphs}

\* The position (0 based) of the exported morph with this key in model.morphs.
PositionOf(key) == (CHOOSE j \in DOMAIN morphs : morphs[j].key = key) - 1

GroupRecord(i) ==
    morphs[CHOOSE j \in DOMAIN morphs : morphs[j].key = m_input.groups[i].key]

\* C11: a group morph with N references to exported morphs (kind and name)
\* and M references to morphs that are not exported has exactly N offsets and
\* causes exactly M warnings, also when a missing morph is listed in the
\* facial display frame; the export goes on.
C11_GroupMorphOffsets ==
    morph_pc \in {"sort", "display", "done"} =>
        \A i \in DOMAIN m_input.groups :
            LET data == m_input.groups[i].data
                valid == {n \in DOMAIN data : data[n] \in ExportedKeys}
            IN /\ Len(GroupRecord(i).offsets) = Cardinality(valid)
               /\ morph_warnings[i] = Len(data) - Cardinality(valid)

\* C12: in the model handed on, the morph index of every group morph offset
\* and of every display item is the position in the sorted morph list of the
\* exported morph it refers to, whatever the facial frame lists.
C12_MorphIndicesResolve ==
    morph_pc = "done" =>
        /\ \A i \in DOMAIN m_input.groups :
              LET refs == SelectSeq(m_input.groups[i].data, LAMBDA k : k \in ExportedKeys)
              IN GroupRecord(i).offsets = [n \in DOMAIN refs |-> PositionOf(refs[n])]
        /\ LET items == SelectSeq(m_input.frame.data, LAMBDA k : k \in ExportedKeys)
           IN display = [n \in DOMAIN items |-> <<1, PositionOf(items[n])>>]

\* The morphs in the order they are found by the export.
Discovered == m_input.base \o [i \in DOMAIN m_input.groups |-> m_input.groups[i].key]

FacialOrder == IF m_input.frame.facial THEN Dedup(m_input.frame.data) ELSE <<>>

\* C13: in the final morph list the exported morphs named in the facial
\* display frame come first, in the order of their first occurrence in the
\* frame, followed by the other exported morphs in discovery order.
C13_MorphOrder ==
    morph_pc \in {"display", "done"} =>
        [j \in DOMAIN morphs |-> morphs[j].key]
            = SelectSeq(FacialOrder, LAMBDA k : k \in Range(Discovered))
              \o SelectSeq(Discovered, LAMBDA k : k \notin Range(FacialOrder))

\* A facial frame naming the group morph, a missing morph and the bone morph,
\* while the vertex morph is left out of it.
C13_Witness ==
    /\ morph_pc = "done"
    /\ m_input.frame.facial
    /\ m_input.frame.data = <<GroupG, Phantom, BoneA>>
    /\ [j \in DOMAIN morphs |-> morphs[j].key] = <<GroupG, BoneA, VertexA>>

-----------------------------------------------------------------------------
(* Properties of the material order *)

\* Model.materials(): the materials of the model in their original order,
\* first encounter over the meshes and, in a mesh, the slots in order.
RigMaterials ==
    Dedup(Concat([i \in DOMAIN mat_scene |->
                    SelectSeq(mat_scene[i].slots, LAMBDA x : x # NoMaterial)]))

\* C14: without material sorting the export keeps the material order: every
\* material of the model is exported exactly once and the i-th exported
\* material is the i-th material of the model in its original order.
C14_MaterialOrderKept ==
    mat_pc = "done" => mat_exported = RigMaterials

-----------------------------------------------------------------------------
(* Properties of execute *)

\* The stages that build the bone, vertex/face, material, morph, display,
\* rigid body and joint tables; without a root object the model has no bone,
\* material, UV or group morphs and no display frames to export.
TableStages ==
    {"__exportBones", "__loadMeshData", "__exportMeshes", "__exportVertexMorphs",
     "__exportRigidBodies", "__exportJoints"}
    \cup (IF exec_args.root
          THEN {"__export_bone_morphs", "__export_material_morphs", "__export_uv_morphs",
                "__export_group_morphs", "morphs.sort", "__exportDisplayItems"}
          ELSE {})

SavePosition == CHOOSE i \in DOMAIN exec_done : exec_done[i] = "pmx.save"

\* C15: in one run pmx.save is called at most once and only after all the
\* tables have been built; when a stage raises, pmx.save is never called.
C15_SaveOnceAfterAllTables ==
    /\ save_calls <= 1
    /\ save_calls = Cardinality({i \in DOMAIN exec_done : exec_done[i] = "pmx.save"})
    /\ save_calls = 1 =>
          \A t \in TableStages : \E i \in 1..(SavePosition - 1) : exec_done[i] = t
    /\ exec_pc = "raised" => save_calls = 0
    /\ exec_pc = "returned" => save_calls = 1

\* A run with a root object that returned after pmx.save.
C15_Witness ==
    /\ exec_pc = "returned"
    /\ exec_args.root /\ exec_args.sort_materials
    /\ save_calls = 1
    /\ exec_done[Len(exec_done)] = "pmx.save"

-----------------------------------------------------------------------------
(* Properties of the IK settings *)

\* The log entries of the accepted constraints whose control bone is record k
\* of the table (k is 0 based).
AcceptedFor(k) ==
    {i \in DOMAIN ik_log : ik_log[i].outcome = "accepted" /\ ik_log[i].control = k}

\* One pass of the constraint loop leaves every record that is an IK bone as
\* it is, changes no record when the constraint is not accepted, and makes
\* exactly the control bone's record an IK bone when it is.
C20_Step ==
    /\ \A k \in DOMAIN ik_bones : ik_bones[k].isIK => ik_bones'[k] = ik_bones[k]
    /\ Len(ik_log') > Len(ik_log) =>
          LET e == ik_log'[Len(ik_log')] IN
          IF e.outcome = "accepted"
          THEN /\ \A k \in DOMAIN ik_bones : k # e.control + 1 => ik_bones'[k] = ik_bones[k]
               /\ ~ik_bones[e.control + 1].isIK
               /\ ik_bones'[e.control + 1].isIK
          ELSE ik_bones' = ik_bones

\* The state of the table against the constraints visited so far: a record is
\* an IK bone exactly when one constraint was accepted for it, never more than
\* one; its loop count (at least 1), target and links are the ones of that
\* constraint; every constraint visited after it that resolves to the same
\* control bone was passed over (muted) or rejected with the warning "used".
C20_Log ==
    \A k \in DOMAIN ik_bones :
       /\ Cardinality(AcceptedFor(k - 1)) <= 1
       /\ ik_bones[k].isIK <=> AcceptedFor(k - 1) # {}
       /\ \A i \in AcceptedFor(k - 1) :
             LET e == ik_log[i]
                 from == IF e.c.use_tail THEN e.bone
                         ELSE BoneByName(ik_arm.bones, e.bone).parent
             IN /\ ik_bones[k].loopCount >= 1
                /\ ik_bones[k].loopCount \in {1, e.c.iterations \div ik_arm.ik_loop_factor}
                /\ ik_bones[k].loopCount >= e.c.iterations \div ik_arm.ik_loop_factor
                /\ ik_bones[k].target \in 0..(Len(ik_bones) - 1)
                /\ ik_bones[k].ik_links = exportIKLinks(ik_arm.bones, from, e.c.chain_count, <<>>)
                /\ \A j \in DOMAIN ik_log :
                      (j > i /\ ik_log[j].control = k - 1) =>
                          ik_log[j].outcome \in {"muted", "used"}
                /\ \A j \in DOMAIN ik_log :
                      (j < i /\ ik_log[j].control = k - 1) =>
                          ik_log[j].outcome \in {"muted", "no_target"}

\* C20: each bone record becomes an IK bone through at most one constraint,
\* the first accepted one in the order of the pose bones, which sets its IK
\* flag, target, loop count (at least 1) and links; every later constraint
\* that resolves to the same control bone is rejected with a warning and
\* leaves these fields unchanged.
C20_OneIKSettingPerBone == [][C20_Step]_vars /\ []C20_Log

\* Two constraints of different bones resolved to the same control bone: the
\* first was accepted, the second rejected as "used".
C20_Witness ==
    /\ ik_pc = "done"
    /\ \E i, j \in DOMAIN ik_log :
          /\ i < j
          /\ ik_log[i].outcome = "accepted"
          /\ ik_log[j].outcome = "used"
          /\ ik_log[i].control = ik_log[j].control
          /\ ik_log[i].bone # ik_log[j].bone
          /\ ik_log[i].c # ik_log[j].c

\* The bones from n up the parent chain, and the number of leading bones of a
\* walk that have a record in the bone table.
RECURSIVE IKWalk(_, _)
IKWalk(bones, n) ==
    IF n = NoBone THEN <<>>
    ELSE <<n>> \o IKWalk(bones, BoneByName(bones, n).parent)

PresentPrefix(bones, w) ==
    Cardinality({m \in DOMAIN w : \A j \in 1..m : ~BoneByName(bones, w[j]).shadow})

\* C21: the links of an IK bone number min(chain_count, consecutive bones
\* with a record in the bone table, from the first bone of the chain up the
\* parents); the k-th link targets the table index of the k-th bone of the
\* walk, and a chain_count <= 0 gives no link.
C21_LinksFollowParents ==
    \A k \in DOMAIN ik_bones :
       \A i \in AcceptedFor(k - 1) :
          LET e == ik_log[i]
              from == IF e.c.use_tail THEN e.bone
                      ELSE BoneByName(ik_arm.bones, e.bone).parent
              w == IKWalk(ik_arm.bones, from)
              links == ik_bones[k].ik_links
          IN /\ Len(links) = Min(Max(e.c.chain_count, 0), PresentPrefix(ik_arm.bones, w))
             /\ \A j \in DOMAIN links :
                   /\ ~BoneByName(ik_arm.bones, w[j]).shadow
                   /\ links[j] = Cardinality({m \in DOMAIN ik_arm.bones :
                                    /\ ~ik_arm.bones[m].shadow
                                    /\ m < IndexOfName(IKNames, w[j])})

\* A chain of count 2 starting at C was cut short by the bone above it, the
\* shadow bone B, which has no record.
C21_Witness ==
    /\ ik_pc = "done"
    /\ \E i \in DOMAIN ik_log :
          /\ ik_log[i].outcome = "accepted"
          /\ ik_log[i].bone = "C"
          /\ ik_log[i].c.use_tail
          /\ ik_log[i].c.chain_count = 2
          /\ ik_bones[ik_log[i].control + 1].ik_links = <<1>>

-----------------------------------------------------------------------------
(* Properties of the IK link angle limits *)

\* The limits of axis i after the axis loop.
AxisIs(i, lo, hi) == lim_axes.minimum[i] = lo /\ lim_axes.maximum[i] = hi
Unconstrained(i) == AxisIs(i, -Pi, Pi)

\* C22: for each axis the first applicable rule decides: policy IGNORE_ALL ->
\* unconstrained; a custom limit constraint exists -> its limits when it
\* enables the axis, else unconstrained; the IK lock of the axis -> 0..0; an
\* override constraint enabling the axis -> its limits; an override constraint
\* not enabling it under OVERRIDE_CONTROLLED -> unconstrained; the native IK
\* limit when enabled -> its limits; otherwise unconstrained.
C22_FirstApplicableRule ==
    lim_pc \in {"emit", "done"} =>
       \A i \in Axes :
          LET ignore == lim_in.policy = "IGNORE_ALL"
              custom == lim_in.custom.exists
              lock == lim_in.lock_ik[i]
              over == lim_in.override.exists /\ lim_in.override.use[i]
              shut == lim_in.override.exists /\ lim_in.policy = "OVERRIDE_CONTROLLED"
              native == lim_in.native.use[i]
          IN /\ ignore => Unconstrained(i)
             /\ (~ignore /\ custom /\ lim_in.custom.use[i]) =>
                   AxisIs(i, lim_in.custom.min[i], lim_in.custom.max[i])
             /\ (~ignore /\ custom /\ ~lim_in.custom.use[i]) => Unconstrained(i)
             /\ (~ignore /\ ~custom /\ lock) => AxisIs(i, 0, 0)
             /\ (~ignore /\ ~custom /\ ~lock /\ over) =>
                   AxisIs(i, lim_in.override.min[i], lim_in.override.max[i])
             /\ (~ignore /\ ~custom /\ ~lock /\ ~over /\ shut) => Unconstrained(i)
             /\ (~ignore /\ ~custom /\ ~lock /\ ~over /\ ~shut /\ native) =>
                   AxisIs(i, lim_in.native.min[i], lim_in.native.max[i])
             /\ (~ignore /\ ~custom /\ ~lock /\ ~over /\ ~shut /\ ~native) => Unconstrained(i)

\* Under OVERRIDE_CONTROLLED an override constraint that leaves the x axis
\* alone kept the enabled native limit of that axis out, while the y axis took
\* the override's limits and the z axis was locked.
C22_Witness ==
    /\ lim_pc = "done"
    /\ lim_in.policy = "OVERRIDE_CONTROLLED"
    /\ ~lim_in.custom.exists
    /\ lim_in.override.exists
    /\ ~lim_in.override.use[1] /\ lim_in.native.use[1] /\ ~lim_in.lock_ik[1]
    /\ Unconstrained(1)
    /\ lim_in.override.use[2] /\ ~lim_in.lock_ik[2]
    /\ AxisIs(2, lim_in.override.min[2], lim_in.override.max[2])
    /\ lim_in.lock_ik[3] /\ AxisIs(3, 0, 0)

\* The axes of the link that ended up constrained.
ConstrainedAxes == {i \in Axes : ~Unconstrained(i)}

\* C23 as stated: the limits are converted and the link carries limits if and
\* only if fewer than 3 of its axes ended up constrained.
C23_LimitsIffFewerThan3Constrained ==
    lim_pc = "done" => (lim_link # NoLimits <=> Cardinality(ConstrainedAxes) < 3)

\* C23 (amended): the limits are converted and the link carries limits if and
\* only if fewer than 3 of its axes ended up unconstrained, that is, at least
\* one axis is constrained; the converted limits are those of the axis loop.
C23_LimitsIffSomeAxisConstrained ==
    lim_pc = "done" =>
       /\ lim_link # NoLimits <=> Cardinality(ConstrainedAxes) >= 1
       /\ lim_link # NoLimits =>
             /\ lim_link.converted
             /\ lim_link.minimum = lim_axes.minimum
             /\ lim_link.maximum = lim_axes.maximum

\* A link with all three axes constrained was given converted limits.
C23_Witness ==
    /\ lim_pc = "done"
    /\ Cardinality(ConstrainedAxes) = 3
    /\ lim_link # NoLimits
    /\ lim_link.converted

-----------------------------------------------------------------------------
(* Properties of the texture table *)

IsPrefix(s, t) == Len(s) <= Len(t) /\ \A i \in DOMAIN s : s[i] = t[i]

\* The table against the calls made so far, for a given way to compare two
\* absolute paths: no two entries compare equal; a call with a blank path
\* returned -1, any other call the position of an entry that compares equal
\* to its path; two calls with paths that compare equal returned the same
\* index; a warning was given exactly for an appended path without a file.
TextureTableOK(fold) ==
    /\ \A i, j \in DOMAIN textures : fold[textures[i]] = fold[textures[j]] => i = j
    /\ \A k \in DOMAIN tex_calls :
          LET e == tex_calls[k] IN
          IF IsBlank(e.filepath) THEN e.result = -1 /\ ~e.warned
          ELSE /\ e.result \in 0..(Len(textures) - 1)
               /\ fold[textures[e.result + 1]] = fold[AbsPath(e.filepath)]
               /\ e.warned => AbsPath(e.filepath) \notin tex_env.files
    /\ \A k, m \in DOMAIN tex_calls :
          (/\ ~IsBlank(tex_calls[k].filepath) /\ ~IsBlank(tex_calls[m].filepath)
           /\ fold[AbsPath(tex_calls[k].filepath)] = fold[AbsPath(tex_calls[m].filepath)])
             => tex_calls[k].result = tex_calls[m].result
    /\ \A i \in DOMAIN textures :
          textures[i] \notin tex_env.files =>
             \E k \in DOMAIN tex_calls : tex_calls[k].result = i - 1 /\ tex_calls[k].warned

\* A call appends at most one entry, and none when its path is blank or
\* compares equal to an entry.
TextureStep(fold) ==
    /\ IsPrefix(textures, textures')
    /\ Len(textures') <= Len(textures) + 1
    /\ Len(tex_calls') > Len(tex_calls) =>
          LET e == tex_calls'[Len(tex_calls')] IN
          (IsBlank(e.filepath)
             \/ \E i \in DOMAIN textures : fold[textures[i]] = fold[AbsPath(e.filepath)])
            => textures' = textures

AbsPaths == {AbsPath(p) : p \in TexPaths}
FoldCase == [p \in AbsPaths |-> LowerCase(p)]
FoldPlatform == [p \in AbsPaths |-> IF tex_env.platform = "nt" THEN LowerCase(p) ELSE p]

-----------------------------------------------------------------------------
(* Properties of the face list, the material table and the morph indices *)

\* The face of the input a model face was made from, and its material.
SrcOf(vertices, face) == vertices[face[1] + 1].src
MaterialOfSrc(src) ==
    tb_in.meshes[src[1]].slots[tb_in.meshes[src[1]].faces[src[2]].slot]
InputFaces == {<<mi, fi>> : mi \in DOMAIN tb_in.meshes, fi \in 1..MaxModelFaces} \cap
              {src \in (DOMAIN tb_in.meshes) \X (1..MaxModelFaces) :
                  src[2] \in DOMAIN tb_in.meshes[src[1]].faces}

\* The positions of the face list that the vertex counts give to the k-th
\* material.
RunOf(materials, k) ==
    LET start == SumSeq([j \in 1..(k - 1) |-> materials[j].vertex_count \div 3])
    IN (start + 1)..(start + materials[k].vertex_count \div 3)

\* The faces of the run of the material with the given name.
FaceSetOf(faces, materials, name) ==
    {faces[p] : p \in UNION {RunOf(materials, k) :
                    k \in {j \in DOMAIN materials : materials[j].name = name}}}

\* Every material owns one run of faces, the runs follow the material table,
\* cover the face list, and a run holds exactly the faces of its material.
FaceRunsOK ==
    /\ Len(material_name_table) = Len(model_materials)
    /\ \A k \in DOMAIN model_materials :
          /\ model_materials[k].name = material_name_table[k]
          /\ model_materials[k].vertex_count = 3 * Cardinality(RunOf(model_materials, k))
          /\ RunOf(model_materials, k) \subseteq DOMAIN model_faces
          /\ \A p \in RunOf(model_materials, k) :
                MaterialOfSrc(SrcOf(model_vertices, model_faces[p])) = material_name_table[k]
          /\ \A j \in DOMAIN model_materials : j # k => material_name_table[j] # material_name_table[k]
    /\ UNION {RunOf(model_materials, k) : k \in DOMAIN model_materials} = DOMAIN model_faces
    /\ {SrcOf(model_vertices, model_faces[p]) : p \in DOMAIN model_faces} = InputFaces
    /\ Len(model_faces) = Cardinality(InputFaces)

\* The mean distance of the face corners of a material from the centre of
\* the vertices, as a fraction; the centre is S / N.
MeanDistance(name) ==
    LET N == Len(model_vertices)
        S == SumSeq([i \in DOMAIN model_vertices |-> model_vertices[i].co])
        Mine(i) == MaterialOfSrc(model_vertices[i].src) = name
    IN [num |-> SumSeq([i \in DOMAIN model_vertices |->
                   IF Mine(i) THEN Abs(N * model_vertices[i].co - S) ELSE 0]),
        den |-> N * Cardinality({i \in DOMAIN model_vertices : Mine(i)})]

FracLeq(a, b) == a.num * b.den <= b.num * a.den

\* One call of __sortMaterials.
C25_SortStep ==
    (tb_pc = "sort" /\ tb_pc' = "bone_morphs") =>
        /\ Len(material_name_table') = Len(material_name_table)
        /\ Range(material_name_table') = Range(material_name_table)
        /\ \A i, j \in DOMAIN material_name_table' :
              i < j =>
                 /\ FracLeq(MeanDistance(material_name_table'[i]),
                            MeanDistance(material_name_table'[j]))
                 /\ FracLeq(MeanDistance(material_name_table'[j]),
                            MeanDistance(material_name_table'[i]))
                       => list_index(material_name_table, material_name_table'[i])
                            < list_index(material_name_table, material_name_table'[j])
        /\ Len(model_faces') = Len(model_faces)
        /\ \A f \in Range(model_faces) :
              Cardinality({p \in DOMAIN model_faces' : model_faces'[p] = f})
                 = Cardinality({p \in DOMAIN model_faces : model_faces[p] = f})
        /\ \A name \in Range(material_name_table) :
              FaceSetOf(model_faces', model_materials', name)
                 = FaceSetOf(model_faces, model_materials, name)

\* C25: after __exportMeshes, and again after __sortMaterials, the
\* vertex_count / 3 faces of every material are one run of the face list, the
\* runs follow the order of the material table and cover the face list; the
\* sort puts the materials in non-decreasing order of mean distance from the
\* centre, keeps the order of materials of equal distance, moves the faces and
\* the material names with the materials, and keeps the faces and the faces
\* of each material.
C25_FaceRunsFollowMaterials ==
    /\ [](tb_pc \in {"sort", "bone_morphs", "material_morphs", "done"} => FaceRunsOK)
    /\ [][C25_SortStep]_vars

\* The sort has exchanged two materials, one of which has faces from both
\* meshes.
C25_Witness ==
    /\ tb_pc = "bone_morphs"
    /\ tb_in.sort_materials
    /\ material_name_table # exportMeshes(tb_in.meshes).names
    /\ Len(material_name_table) = 2
    /\ \E name \in Range(material_name_table) :
          {SrcOf(model_vertices, f)[1] : f \in FaceSetOf(model_faces, model_materials, name)}
             = DOMAIN tb_in.meshes
    /\ FaceRunsOK

\* The materials some face of the input uses, and the bones exported.
UsedMaterials == {MaterialOfSrc(src) : src \in InputFaces}
ExportedBones == {arm[i].name : i \in NonShadow(arm)}

NamesOf(offsets) == [i \in DOMAIN offsets |-> offsets[i].name]

KeptMaterials(data) ==
    LET Kept(n) == n = "" \/ n \in UsedMaterials IN SelectSeq(data, Kept)

KeptBones(data) ==
    LET Kept(n) == n \in ExportedBones IN SelectSeq(data, Kept)

\* C26: when the morphs are exported, every material morph offset has index -1
\* for the empty material name and otherwise the position of the named
\* material in the material table as the sort left it; data naming a material
\* that was not exported gives no offset and a warning; every bone morph
\* offset has the position of the named bone in the bone table.
C26_MorphIndicesAreFinalPositions ==
    tb_pc = "done" =>
        /\ \A i \in DOMAIN material_offsets :
              LET o == material_offsets[i] IN
              IF o.name = "" THEN o.index = -1
              ELSE /\ o.index + 1 \in DOMAIN model_materials
                   /\ model_materials[o.index + 1].name = o.name
        /\ NamesOf(material_offsets) = KeptMaterials(tb_in.material_morph)
        /\ material_warnings = {n \in Range(tb_in.material_morph) : n # "" /\ n \notin UsedMaterials}
        /\ \A i \in DOMAIN bone_offsets :
              /\ bone_offsets[i].index + 1 \in DOMAIN pmx_bones
              /\ pmx_bones[bone_offsets[i].index + 1].name = bone_offsets[i].name
        /\ NamesOf(bone_offsets) = KeptBones(tb_in.bone_morph)

\* The sort has exchanged the two materials; the morph names both, all
\* materials and a material that is not exported, and two bones that the
\* bone table holds in the order of their IDs.
C26_Witness ==
    /\ tb_pc = "done"
    /\ exportMeshes(tb_in.meshes).names = <<"M1", "M2">>
    /\ material_offsets = <<[name |-> "M2", index |-> 0], [name |-> "", index |-> -1],
                            [name |-> "M1", index |-> 1]>>
    /\ material_warnings = {"M3"}
    /\ bone_offsets = <<[name |-> "A", index |-> 1], [name |-> "B", index |-> 0]>>

\* The corners (positions in corner_log) mapped to vertex j of source vertex s,
\* their weighted normal and colour sums and their total weight.
CornersOf(s, j) == {k \in DOMAIN corner_log : corner_log[k].src = s /\ corner_log[k].idx = j}

OwnNormalSum(s, j) ==
    VecSum([k \in DOMAIN corner_log |->
              IF k \in CornersOf(s, j) THEN Scaled(corner_log[k].normal, corner_log[k].w)
              ELSE <<0, 0>>], <<0, 0>>)

OwnColorSum(s, j) ==
    VecSum([k \in DOMAIN corner_log |->
              IF k \in CornersOf(s, j) THEN Scaled(corner_log[k].color, corner_log[k].w)
              ELSE Zero], Zero)

OwnWeight(s, j) ==
    SumSeq([k \in DOMAIN corner_log |-> IF k \in CornersOf(s, j) THEN corner_log[k].w ELSE 0])

\* The colour held in add_uvs[1] as a fraction [vec, den].
StoredColor(v) ==
    LET slot == add_uvs_heap[v.add_uvs][ColorSlot]
    IN IF slot = None THEN [vec |-> Zero, den |-> 1]
       ELSE [vec |-> slot[1] \o slot[2], den |-> IF Len(slot) = 3 THEN slot[3] ELSE 1]

\* C27: in non-splitting mode, when all corners of the mesh are processed, the
\* normal of every IndexedVertex has the direction of the (angle x area)
\* weighted sum of the normals of the corners mapped to this vertex, and its
\* colour is the weighted mean of the colours of these corners; the corners
\* mapped to another vertex of the same source vertex do not enter.
C27_AverageOfOwnCorners ==
    (vertex_pc.phase = "done" /\ ~cfg.splitting /\ cfg.layers = 0) =>
        \A s \in DOMAIN base_vertices : \A j \in DOMAIN base_vertices[s] :
            LET v == base_vertices[s][j] IN
            /\ SameDirection(v.normal, OwnNormalSum(s, j))
            /\ \A i \in 1..4 :
                  StoredColor(v).vec[i] * OwnWeight(s, j) = OwnColorSum(s, j)[i] * StoredColor(v).den

-----------------------------------------------------------------------------
(* Properties of the bone IDs *)

DistinctIds(bones) ==
    \A i, j \in DOMAIN bones : i # j => bones[i].bone_id # bones[j].bone_id

\* The bones a reference denotes: the bones of that ID, none for an unset
\* reference.
Denoted(bones, x) == IF x < 0 THEN {} ELSE {i \in DOMAIN bones : bones[i].bone_id = x}

\* The bone morph entries, the additional transform references and the
\* display connection references, in a fixed order.
RefsOf(bones, morph) ==
    morph \o [i \in DOMAIN bones |-> bones[i].additional_transform_bone_id]
          \o [i \in DOMAIN bones |-> bones[i].display_connection_bone_id]

\* C28: when the bone IDs are pairwise distinct before
\* safe_change_bone_id(bone, new_id), they are pairwise distinct after it, the
\* bone has the ID max(new_id, 0), every reference that denoted a bone denotes
\* the same bone, and every unset reference (-1) denotes no bone.
C28_SafeChangeKeepsReferences ==
    (id_call.op = "safe_change_bone_id" /\ DistinctIds(id_call.bones)) =>
        /\ DistinctIds(id_bones)
        /\ id_bones[id_call.bone].bone_id = Max(id_call.new_bone_id, 0)
        /\ LET before == RefsOf(id_call.bones, id_call.morph)
               after == RefsOf(id_bones, id_morph)
           IN \A k \in DOMAIN before :
                 (before[k] = -1 \/ Denoted(id_call.bones, before[k]) # {}) =>
                     Denoted(id_bones, after[k]) = Denoted(id_call.bones, before[k])

ValidBones(bones) == {i \in DOMAIN bones : ~bones[i].shadow}

\* C29: after realign_bone_ids(offset, ...) the n non-shadow bones carry the
\* IDs offset, ..., offset + n - 1, each of them once, whatever the sorting
\* method and the IDs before the call.
C29_RealignGivesSequentialIds ==
    id_call.op = "realign_bone_ids" =>
        LET valid == ValidBones(id_bones)
        IN /\ {id_bones[i].bone_id : i \in valid}
                 = id_call.offset..(id_call.offset + Cardinality(valid) - 1)
           /\ \A i, j \in valid : i # j => id_bones[i].bone_id # id_bones[j].bone_id

\* A realignment from offset 1 of an armature where the non-shadow bone A had
\* no ID, the non-shadow bone B the ID 2, and the shadow bone C the ID 1 that
\* the realignment gives to the first bone.
C29_Witness ==
    /\ id_call.op = "realign_bone_ids"
    /\ id_call.offset = 1
    /\ id_call.bones[1].bone_id = -1 /\ ~id_call.bones[1].shadow
    /\ id_call.bones[2].bone_id = 2 /\ ~id_call.bones[2].shadow
    /\ id_call.bones[3].bone_id = 1 /\ id_call.bones[3].shadow
    /\ id_bones[2].bone_id = 1 /\ id_bones[1].bone_id = 2

-----------------------------------------------------------------------------
(* Properties of the auto-export tracker *)

\* C30: a change recorded for a model root that still exists leads to an
\* export: unless the last track_mmd_changes saw the mesh move (it waits for
\* the movement to stop), changes_detected for an existing root_to_export
\* comes with a pending stability timer.  Without one
\* forced_check_handler returns at line 254 on every run and nothing but
\* another change of the scene leads to export_model.
C30_RecordedChangeHasTimer ==
    (changes_detected /\ is_valid_object(ae_scene, root_to_export) /\ ~ae_scene.moving)
        => timers_pending > 0

====
